------------------------------- MODULE Strtox --------------------------------
(***************************************************************************)
(* strtoull and strtoll (src/src/libc/nk_stdlib.c), with which the boot    *)
(* code reads the address of the device tree, for unsigned long long of    *)
(* any width, against a definition of what they have to return.            *)
(***************************************************************************)
EXTENDS Integers, Sequences

CONSTANTS
  Wrap,       \* number of values of unsigned long long
  MaxLength,  \* bound on the length of a string
  Bases

ASSUME StrtoxAssumption ==
  Wrap \in Nat /\ Wrap > 1 /\ MaxLength \in Nat /\ Bases \subseteq Int

ULLONG_MAX == Wrap - 1
LLONG_MAX == Wrap \div 2 - 1
LLONG_MIN == -LLONG_MAX - 1

\* Characters that the code tells apart, and the value of a digit or letter.
Value == [c \in {"0", "1", "7", "f", "x"} |->
            CASE c = "0" -> 0 [] c = "1" -> 1 [] c = "7" -> 7 [] c = "f" -> 15 [] c = "x" -> 33]
Characters == DOMAIN Value \union {" ", "+", "-"}
isalnum(c) == c \in DOMAIN Value
isxdigit(c) == isalnum(c) /\ c # "x"

VARIABLES sx_call, sx_ret

sx_vars == <<sx_call, sx_ret>>

\* nptr[i], i from 0, with the terminating NUL.
CharAt(str, i) == IF i < Len(str) THEN str[i + 1] ELSE "NUL"

\* The first position from i on whose character is not in C.
Skip(str, i, C) ==
  CHOOSE j \in i .. Len(str) : /\ CharAt(str, j) \notin C
                               /\ \A k \in i .. j - 1 : CharAt(str, k) \in C

\* Mutant: the last digit is not compared with cutlim.
AddDigitLate(b, s, c) ==
  IF s.any < 0 \/ s.acc > ULLONG_MAX \div b
    THEN [s EXCEPT !.any = -1]
    ELSE [acc |-> (s.acc * b + c) % Wrap, any |-> 1]

\* One round of the loop; once a digit did not fit, any stays -1.
AddDigit(b, s, c) ==
  IF \/ s.any < 0 \/ s.acc > ULLONG_MAX \div b
     \/ s.acc = ULLONG_MAX \div b /\ c > ULLONG_MAX % b
    THEN [s EXCEPT !.any = -1]
    ELSE [acc |-> (s.acc * b + c) % Wrap, any |-> 1]

\* The base after the prefix at position i has been looked at, and the first digit.
Detect(str, i, base) ==
  LET prefix == base \in {0, 16} /\ CharAt(str, i) = "0" /\ CharAt(str, i + 1) = "x"
  IN  IF prefix /\ isxdigit(CharAt(str, i + 2)) THEN [base |-> 16, first |-> i + 2]
      ELSE [base |-> IF base # 0 THEN base ELSE IF CharAt(str, i) = "0" THEN 8 ELSE 10,
            first |-> i]

\* The loop over the digits nptr[first] .. nptr[end - 1].
AddDigits(str, b, first, end) ==
  LET loop[s \in first .. end] ==
        IF s = first THEN [acc |-> 0, any |-> 0]
        ELSE AddDigit(b, loop[s - 1], Value[CharAt(str, s - 1)])
  IN  loop[end]

\* endptr is an offset from nptr.
strtox_main(str, base) ==
  LET sign == Skip(str, 0, {" "})
      start == IF CharAt(str, sign) \in {"-", "+"} THEN sign + 1 ELSE sign
      d == Detect(str, start, base)
      end == Skip(str, d.first, {c \in DOMAIN Value : Value[c] < d.base})
      r == AddDigits(str, d.base, d.first, end)
  IN  IF d.base < 2 \/ d.base > 36
        THEN [acc |-> 0, overflow |-> FALSE, negative |-> CharAt(str, sign) = "-", end |-> 0]
        ELSE [acc |-> IF r.any < 0 THEN ULLONG_MAX ELSE r.acc, overflow |-> r.any < 0,
              negative |-> CharAt(str, sign) = "-", end |-> IF r.any = 0 THEN 0 ELSE end]

strtoull(m) ==
  IF m.overflow THEN ULLONG_MAX ELSE IF m.negative THEN (Wrap - m.acc) % Wrap ELSE m.acc

\* Negating the smallest value overflows; the instruction leaves it as it is.
strtoll(m) ==
  IF m.overflow THEN IF m.negative THEN LLONG_MIN ELSE LLONG_MAX
  ELSE IF m.negative THEN IF m.acc > LLONG_MAX + 1 THEN LLONG_MIN ELSE -m.acc
  ELSE IF m.acc > LLONG_MAX THEN LLONG_MAX ELSE m.acc

StrtoxInit == sx_call = <<>> /\ sx_ret = <<>>

Call(str, base) ==
  /\ sx_call' = <<str, base>>
  /\ \E m \in {strtox_main(str, base)} : sx_ret' = <<strtoull(m), strtoll(m), m.end>>

Return == sx_call # <<>> /\ sx_call' = <<>> /\ sx_ret' = <<>>

StrtoxNext ==
  \/ /\ sx_call = <<>>
     /\ \E n \in 0 .. MaxLength :
          \E str \in [1 .. n -> Characters], base \in Bases : Call(str, base)
  \/ Return

StrtoxSpec == StrtoxInit /\ [][StrtoxNext]_sx_vars

-----------------------------------------------------------------------------
(* What the functions have to return *)

Unsigned(n) == IF n # <<>> /\ n[1] \in {"-", "+"} THEN Tail(n) ELSE n

\* The ways to read n as a numeral: a radix and the digits behind sign and prefix.
Readings(n, base) ==
  LET u == Unsigned(n)
      plain == IF base # 0 THEN base ELSE IF u # <<>> /\ u[1] = "0" THEN 8 ELSE 10
      hex == base \in {0, 16} /\ Len(u) > 2 /\ u[1] = "0" /\ u[2] = "x"
  IN  {r \in {<<plain, u>>} \union (IF hex THEN {<<16, SubSeq(u, 3, Len(u))>>} ELSE {}) :
         /\ r[1] \in 2 .. 36 /\ r[2] # <<>>
         /\ \A i \in DOMAIN r[2] : r[2][i] \in DOMAIN Value /\ Value[r[2][i]] < r[1]}

\* The value of the last place but n of a numeral.
Weight(b, n) == LET w[k \in 0 .. n] == IF k = 0 THEN 1 ELSE b * w[k - 1] IN w[n]

Magnitude(r) ==
  LET sum[n \in 0 .. Len(r[2])] ==
        IF n = 0 THEN 0 ELSE sum[n - 1] + Value[r[2][n]] * Weight(r[1], Len(r[2]) - n)
  IN  sum[Len(r[2])]

\* The longest numeral after the spaces, as mathematics reads it.
Expected(str, base) ==
  LET first == CHOOSE i \in 0 .. Len(str) : /\ \A k \in 1 .. i : str[k] = " "
                                            /\ i < Len(str) => str[i + 1] # " "
      Ends == {e \in first + 1 .. Len(str) : Readings(SubSeq(str, first + 1, e), base) # {}}
      end == CHOOSE e \in Ends : \A f \in Ends : f <= e
      mag == Magnitude(CHOOSE r \in Readings(SubSeq(str, first + 1, end), base) : TRUE)
      v == IF str[first + 1] = "-" THEN -mag ELSE mag
  IN  IF Ends = {} THEN <<0, 0, 0>>
      ELSE <<IF mag > ULLONG_MAX THEN ULLONG_MAX ELSE v % Wrap,
             IF v > LLONG_MAX THEN LLONG_MAX ELSE IF v < LLONG_MIN THEN LLONG_MIN ELSE v,
             end>>

\* strtoull and strtoll read the longest numeral of the string in the given or detected
\* base, return its value, wrapped when negative or clamped when out of range, and the
\* place behind it.
NumberExact == sx_call # <<>> => sx_ret = Expected(sx_call[1], sx_call[2])
=============================================================================
