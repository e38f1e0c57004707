------------------------------- MODULE Printk -------------------------------
(***************************************************************************)
(* lib/printk.c: one conversion, from the character behind its "%" to what *)
(* comes out on the console.  Characters are their codes.  An int has BITS *)
(* bits, and so has uint64_t: common.h makes it an unsigned long, which    *)
(* has 32 on this machine.  (%s and plain text put characters out as they  *)
(* are.)                                                                   *)
(***************************************************************************)
EXTENDS Integers, FiniteSets, SequencesExt

CONSTANTS
    BITS,       \* of a word, 32 on the machine
    Formats,    \* what may stand behind a "%"
    Args        \* numbers passed

ASSUME PrintkAssumption ==
    /\ BITS \in Nat \ {0} /\ BITS % 4 = 0
    /\ \A fmt \in Formats : fmt \in Seq(1 .. 255)
    /\ Args \subseteq Int

VARIABLE print      \* the conversion at work: format, argument, and what it put out

\* base to the power of each number of bits or digits of a word.
Powers(base) ==
    LET of[k \in 0 .. BITS] == IF k = 0 THEN 1 ELSE base * of[k - 1]
    IN  of

WORD == Powers(2)[BITS]
PERCENT == 37
SPACE == 32
MINUS == 45
Digit(d) == 48 + d          \* '0' + d
Letter == [c |-> 99, d |-> 100, i |-> 105, l |-> 108, p |-> 112, u |-> 117, x |-> 120]

\* kprint_repeat
kprint_repeat(ch, n) == [k \in 1 .. n |-> ch]

-----------------------------------------------------------------------------
(* Reading a conversion.                                                    *)

\* The string ends in a NUL.
At(fmt, i) == IF i > Len(fmt) THEN 0 ELSE fmt[i]

\* parse_width: a 0, then digits.  Returns the place behind them too.
parse_width(fmt) ==
    LET zero  == At(fmt, 1) = Digit(0)
        first == IF zero THEN 2 ELSE 1
        behind[i \in 1 .. Len(fmt) + 1] ==
          IF At(fmt, i) \in Digit(0) .. Digit(9) THEN behind[i + 1] ELSE i
        width[i \in first .. Len(fmt) + 1] ==
          IF i = first THEN 0 ELSE width[i - 1] * 10 + At(fmt, i - 1) - Digit(0)
    IN  [zero_pad |-> zero, width |-> width[behind[first]], next |-> behind[first]]

\* "l" or "ll"
len_l(fmt, i) ==
    IF At(fmt, i) # Letter.l THEN 0 ELSE IF At(fmt, i + 1) # Letter.l THEN 1 ELSE 2

\* Mutant of Behind: the pointer is moved before it is looked at.
Behind_blindly(fmt, i) == i + 1

\* Where printk goes on: not behind the end of an unfinished conversion.
Behind(fmt, i) == IF At(fmt, i) # 0 THEN i + 1 ELSE i

-----------------------------------------------------------------------------
(* Numbers.                                                                 *)

\* What each turn of a loop that divides v leaves of it (shifts it, if base is 16).
Left(v, base) ==
    LET of[k \in 0 .. BITS] == IF k = 0 THEN v ELSE of[k - 1] \div base
    IN  of

\* The turns until nothing is left.  A word has that many digits.
Digits(v, base) == CHOOSE n \in 1 .. BITS : Left(v, base)[n] = 0 /\ \A k \in 1 .. n - 1 : Left(v, base)[k] # 0

\* kprint_u64_dec, and the two loops like it: digits into a buffer from the last one.
decimal(v) ==
    LET n == Digits(v, 10)
    IN  [k \in 1 .. n |-> Digit(Left(v, 10)[n - k] % 10)]

\* Mutant of signed: the sign is put before the spaces.
signed_sign_first(v, width, zero_pad) ==
    LET neg == IF v < 0 THEN 1 ELSE 0
        mag == decimal((IF v < 0 THEN -v ELSE v) % WORD)
        pad == IF width > Len(mag) + neg THEN width - Len(mag) - neg ELSE 0
    IN  kprint_repeat(MINUS, neg) \o kprint_repeat(IF zero_pad THEN Digit(0) ELSE SPACE, pad) \o mag

\* case 'd'.  The smallest int has no negative: -v overflows, and the machine's
\* negation leaves its bits, which as an unsigned are the right magnitude.
signed(v, width, zero_pad) ==
    LET neg == IF v < 0 THEN 1 ELSE 0
        mag == decimal((IF v < 0 THEN -v ELSE v) % WORD)
        pad == IF width > Len(mag) + neg THEN width - Len(mag) - neg ELSE 0
    IN  kprint_repeat(SPACE, IF zero_pad THEN 0 ELSE pad) \o kprint_repeat(MINUS, neg)
          \o kprint_repeat(Digit(0), IF zero_pad THEN pad ELSE 0) \o mag

\* case 'u'
unsigned(v, width, zero_pad) ==
    LET mag == decimal(v % WORD)
        pad == IF width > Len(mag) THEN width - Len(mag) ELSE 0
    IN  kprint_repeat(IF zero_pad THEN Digit(0) ELSE SPACE, pad) \o mag

HexDigit(d) == IF d < 10 THEN Digit(d) ELSE 97 + d - 10

Nibbles(v) == Digits(v, 16)

\* A shift by at least the width of the word is undefined: the machine's shift
\* takes the count modulo BITS, a compiler that knows it may give 0.
Nibble(v, i, wraps) ==
    IF 4 * i < BITS THEN Left(v, 16)[i] % 16
    ELSE IF wraps THEN Left(v, 16)[i % (BITS \div 4)] % 16
    ELSE 0

\* Mutant of kprint_u64_hex: the digits come out from the last one.
kprint_u64_hex_reversed(v, width, zero_pad, wraps) ==
    LET w == IF width < Nibbles(v) THEN Nibbles(v) ELSE width
    IN  kprint_repeat(IF zero_pad THEN Digit(0) ELSE SPACE, w - Nibbles(v))
          \o [k \in 1 .. w |-> HexDigit(Nibble(v, k - 1, wraps))]

\* The padding, and then as many digits as the width says, zeros in front included.
kprint_u64_hex(v, width, zero_pad, wraps) ==
    LET w == IF width < Nibbles(v) THEN Nibbles(v) ELSE width
    IN  kprint_repeat(IF zero_pad THEN Digit(0) ELSE SPACE, w - Nibbles(v))
          \o [k \in 1 .. w |-> HexDigit(Nibble(v, w - k, wraps))]

\* 16 for a word of 32 bits: twice its digits.
PointerWidth == BITS \div 2

\* An argument as an int.
AsInt(v) == ((v + WORD \div 2) % WORD) - (WORD \div 2)

\* The switch of printk.  The conversions of a long are those of an int.
conversion(sp, ll, width, zero_pad, v, wraps) ==
    CASE sp = 0 -> <<PERCENT>>
      [] sp = Letter.c -> <<v % 256>>
      [] sp \in {Letter.d, Letter.i} -> signed(IF ll = 2 THEN v ELSE AsInt(v), width, zero_pad)
      [] sp = Letter.u -> unsigned(v, width, zero_pad)
      [] sp = Letter.x -> kprint_u64_hex(v % WORD, width, zero_pad, wraps)
      [] sp = Letter.p -> <<Digit(0), Letter.x>>
           \o kprint_u64_hex(v % WORD, IF width # 0 THEN width ELSE PointerWidth, TRUE, wraps)
      [] OTHER -> <<PERCENT>> \o kprint_repeat(Letter.l, ll)
                    \o (IF zero_pad THEN <<Digit(0)>> ELSE <<>>)
                    \o (IF width >= 10 THEN <<Digit((width \div 10) % 10)>> ELSE <<>>)
                    \o (IF width # 0 THEN <<Digit(width % 10)>> ELSE <<>>) \o <<sp>>

\* The passage of printk's loop behind a "%".
printk(fmt, v, wraps) ==
    IF At(fmt, 1) = PERCENT
    THEN [out |-> <<PERCENT>>, next |-> 2, sp |-> PERCENT, width |-> 0, zero_pad |-> FALSE]
    ELSE LET p  == parse_width(fmt)
             i  == p.next + len_l(fmt, p.next)
         IN  [out |-> conversion(At(fmt, i), len_l(fmt, p.next), p.width, p.zero_pad, v, wraps),
              next |-> Behind(fmt, i), sp |-> At(fmt, i), width |-> p.width, zero_pad |-> p.zero_pad]

-----------------------------------------------------------------------------

NoPrint == <<>>

PrintkInit == print = NoPrint

call_printk ==
    /\ print = NoPrint
    /\ \E fmt \in Formats, v \in Args, wraps \in BOOLEAN :
         print' = <<fmt, v, printk(fmt, v, wraps)>>

return_printk ==
    /\ print # NoPrint
    /\ print' = NoPrint

PrintkNext == call_printk \/ return_printk

PrintkSpec == PrintkInit /\ [][PrintkNext]_print

-----------------------------------------------------------------------------
(* The reference: what a reader makes of the characters.                    *)

Fmt == print[1]
Arg == print[2]
Result == print[3]

\* A number a, with a further character c behind it.
Further(a, c, base) ==
    IF c \in Digit(0) .. Digit(9) THEN a * base + c - 48
    ELSE IF c >= 97 THEN a * base + c - 87 ELSE a

\* The number that stands in out, in base 10 or 16.
ValueOf(out, base) ==
    LET of[k \in 0 .. Len(out)] == IF k = 0 THEN 0 ELSE Further(of[k - 1], out[k], base)
    IN  of[Len(out)]

\* Digits a number needs.
Minimal(v, base) ==
    CHOOSE k \in 1 .. BITS : v < Powers(base)[k] /\ \A j \in 1 .. k - 1 : v >= Powers(base)[j]

\* A decimal conversion puts out the number in as few digits as it needs, with
\* its sign directly in front, padded on the left to the width and not beyond,
\* with zeros behind the sign or with spaces before it.  This holds of the
\* smallest int too.  (Of %lld it is asked for numbers of one word only.)
DecimalExact ==
    /\ print # NoPrint
    /\ Result.sp \in {Letter.d, Letter.i, Letter.u}
    /\ len_l(Fmt, parse_width(Fmt).next) = 2 => AsInt(Arg) = Arg
    =>
      LET isSigned == Result.sp # Letter.u
          v     == IF isSigned THEN AsInt(Arg) ELSE Arg % WORD
          mag   == IF v < 0 THEN -v ELSE v
          least == Minimal(mag, 10) + (IF v < 0 THEN 1 ELSE 0)
          out   == Result.out
          blank == Cardinality({k \in DOMAIN out : out[k] = SPACE})
      IN  /\ Len(out) = (IF least < Result.width THEN Result.width ELSE least)
          /\ ValueOf(out, 10) = mag
          /\ blank = (IF Result.zero_pad THEN 0 ELSE Len(out) - least)
          /\ \A k \in 1 .. blank : out[k] = SPACE
          /\ v < 0 <=> Contains(out, MINUS)
          /\ v < 0 => out[blank + 1] = MINUS

\* A hexadecimal conversion puts out digits that read as the number, as long as
\* no more digits are asked for than the word has; without a width, no digit too many.
HexReadable ==
    print # NoPrint /\ Result.sp = Letter.x /\ 4 * Result.width <= BITS =>
      /\ ValueOf(Result.out, 16) = Arg % WORD
      /\ Result.width = 0 => Len(Result.out) = Minimal(Arg % WORD, 16)

\* printk never steps over the NUL that ends the format, however unfinished the
\* conversion in front of it is.
StaysInFormat == print # NoPrint => Result.next <= Len(Fmt) + 1

\* "without a width as many digits as needed, with one fit that width" (the comment in
\* kprint_u64_hex): with a width that suffices, that many characters come out.
HexFitsWidth ==
    print # NoPrint /\ Result.sp = Letter.x /\ Result.width >= Minimal(Arg % WORD, 16) =>
      Len(Result.out) = Result.width
=============================================================================
