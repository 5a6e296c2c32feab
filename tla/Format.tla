------------------------------- MODULE Format -------------------------------
(***************************************************************************)
(* printf() formatting, lib/stdio.c.  Characters are the strings "0", "%", *)
(* and so on, text a sequence of them.  The state is one call of vprintf() *)
(* or vsnprintf(), which share __vprintf(): the parts of its format, the   *)
(* int arguments of its stars, the value to print and the buffer's size.   *)
(*                                                                         *)
(* An int has W bits, and so have a long, a pointer and a size_t; a        *)
(* char has W - 2, a short W - 1 and a long long 2 * W.  Capitals (%X) are *)
(* printed as small letters are.                                           *)
(***************************************************************************)
EXTENDS Integers, Sequences, SequencesExt

CONSTANTS W,
          BufSize,             \* size of buf in format_integer() (64)
          Null,                \* a null string
          Flags, Widths, Precisions, Types, Values, Strings  \* of the calls

VARIABLE call

DigitChars == <<"0", "1", "2", "3", "4", "5", "6", "7", "8", "9",
                "a", "b", "c", "d", "e", "f">>
FlagChars  == {"-", "+", " ", "#", "0", "'"}
Group      == [b \in {8, 10, 16} |-> IF b = 16 THEN 4 ELSE 3]
Least(a, b) == IF a < b THEN a ELSE b
Most(a, b)  == IF a > b THEN a ELSE b

\* output_dup()
Dup(ch, n) == [i \in 1 .. Most(n, 0) |-> ch]

-----------------------------------------------------------------------------
\* The digits of a value into buf, the last one first, cnt of them there already.
RECURSIVE Accumulate(_, _, _, _)
Accumulate(value, b, grouped, cnt) ==
  IF value = 0 THEN <<>>
  ELSE (IF grouped /\ cnt > 0 /\ cnt % Group[b] = 0 THEN <<",">> ELSE <<>>)
       \o <<DigitChars[(value % b) + 1]>>
       \o Accumulate(value \div b, b, grouped, cnt + 1)

\* format_integer(), with the sign character as text.
FormatInteger(value, sign, b, c) ==
  LET digits == Accumulate(value, b, "'" \in c.flags, 0)
      zeros  == Dup("0", Least(IF c.precision < 0 THEN 1 ELSE c.precision, BufSize - 1)
                         - Len(digits))
      filled == digits \o zeros
      octal  == "#" \in c.flags /\ b = 8 /\ (filled = <<>> \/ Last(filled) # "0")
      buf    == IF octal THEN Append(filled, "0") ELSE filled
      x      == IF "#" \in c.flags /\ value # 0 /\ b = 16 THEN <<"0", "x">> ELSE <<>>
      pad    == c.width - Len(buf) - Len(x) - Len(sign)
  IN  (IF {"-", "0"} \cap c.flags = {} THEN Dup(" ", pad) ELSE <<>>)
      \o sign \o x \o (IF "0" \in c.flags THEN Dup("0", pad) ELSE <<>>)
      \o Reverse(buf) \o (IF "-" \in c.flags THEN Dup(" ", pad) ELSE <<>>)

Sign(negative, c) == IF negative THEN <<"-">>
                     ELSE IF "+" \in c.flags THEN <<"+">>
                     ELSE IF " " \in c.flags THEN <<" ">> ELSE <<>>

\* format_string()
FormatString(s, c) ==
  LET pad == Dup(" ", c.width - Len(s))
  IN  IF "-" \in c.flags THEN s \o pad ELSE pad \o s

-----------------------------------------------------------------------------
\* The number that the digits before place i of a format make.
RECURSIVE Number(_, _, _)
Number(f, i, n) ==
  LET digit == {d \in 1 .. 10 : i <= Len(f) /\ f[i] = DigitChars[d]} IN
  IF digit = {} THEN [n |-> n, next |-> i]
  ELSE Number(f, i + 1, 10 * n + (CHOOSE d \in digit : TRUE) - 1)

RECURSIVE AfterFlags(_, _)
AfterFlags(f, i) == IF f[i] \in FlagChars THEN AfterFlags(f, i + 1) ELSE i

\* A number there, or a star, which takes the next argument.
NumberOrStar(f, i, args) ==
  IF f[i] = "*" THEN [n |-> Head(args), next |-> i + 1, args |-> Tail(args)]
  ELSE LET number == Number(f, i, 0)
       IN  [n |-> number.n, next |-> number.next, args |-> args]

Precision(f, i, args) ==
  IF f[i] = "." THEN NumberOrStar(f, i + 1, args)
                ELSE [n |-> -1, next |-> i, args |-> args]

TypeAt(f, i) == IF f[i] \in {"h", "l"} /\ f[i + 1] = f[i] THEN f[i] \o f[i]
                ELSE IF f[i] \in {"h", "j", "l", "t", "z"} THEN f[i] ELSE ""

\* What struct printf_conversion says of the flags, numbers and type given.
Conversion(given, wide, prec, type) ==
  LET plain == (IF "-" \in given THEN given \ {"0"} ELSE given)
               \ (IF "+" \in given THEN {" "} ELSE {})
      left  == IF wide.n < 0 THEN plain \cup {"-"} ELSE plain
  IN  [flags |-> IF prec.n >= 0 THEN left \ {"0"} ELSE left,
       width |-> IF wide.n < 0 THEN -wide.n ELSE wide.n,
       precision |-> IF prec.n < 0 THEN -1 ELSE prec.n,
       type  |-> type,
       next  |-> prec.next + IF type = "" THEN 0 ELSE IF type \in {"hh", "ll"} THEN 2 ELSE 1,
       args  |-> prec.args]

\* parse_conversion() from place i on: flags, then width, precision and type.
ParseConversion(f, i, args) ==
  LET j    == AfterFlags(f, i)
      wide == NumberOrStar(f, j, args)
      prec == Precision(f, wide.next, wide.args)
  IN  Conversion({f[k] : k \in i .. j - 1}, wide, prec, TypeAt(f, prec.next))

Bits(type)   == CASE type = "hh" -> W - 2 [] type = "h" -> W - 1
                  [] type \in {"ll", "j"} -> 2 * W [] OTHER -> W
Wrap(x, m)   == ((x + m \div 2) % m) - m \div 2
AbsOf(x)     == IF x >= 0 THEN x ELSE -x
BaseOf(conv) == CASE conv = "o" -> 8 [] conv = "x" -> 16 [] OTHER -> 10

\* The switch of __vprintf() over the conversion: arg is the next argument.
Convert(conv, c, arg) ==
  CASE conv \in {"d", "i"} ->
         LET v == Wrap(arg, 2^Bits(c.type))
         IN  FormatInteger(AbsOf(v), Sign(v < 0, c), 10, c)
    [] conv \in {"o", "u", "x"} ->
         FormatInteger(arg % 2^Bits(c.type), <<>>, BaseOf(conv), c)
    [] conv = "c" -> FormatString(<<arg>>, c)
    [] conv = "s" ->
         LET s == IF arg = Null THEN <<"(", "n", "u", "l", "l", ")">> ELSE arg
         IN  FormatString(IF c.precision < 0 THEN s
                          ELSE SubSeq(s, 1, Least(c.precision, Len(s))), c)
    [] conv = "p" -> FormatInteger(arg % 2^W, <<>>, 16, [c EXCEPT !.flags = {"#"}])
    [] OTHER -> <<"<<no %", conv, ">>">>

\* __vprintf() from place i of the format on.
RECURSIVE VPrintf(_, _, _)
VPrintf(f, i, args) ==
  IF i > Len(f) THEN <<>>
  ELSE IF f[i] # "%" THEN <<f[i]>> \o VPrintf(f, i + 1, args)
  ELSE IF f[i + 1] = "%" THEN <<"%">> \o VPrintf(f, i + 2, args)
  ELSE LET c    == ParseConversion(f, i + 1, args)
           conv == f[c.next]
       IN  IF conv \in {"d", "i", "o", "u", "x", "c", "s", "p"}
           THEN Convert(conv, c, Head(c.args)) \o VPrintf(f, c.next + 1, Tail(c.args))
           ELSE Convert(conv, c, Null) \o VPrintf(f, c.next + 1, c.args)

\* vsnprintf() of a text: what is in the buffer, and the value it returns.
VSNPrintf(text, size) ==
  LET max_length == IF size > 0 THEN size - 1 ELSE 0
      Helper(aux, ch) == [p |-> IF aux.length < max_length THEN Append(aux.p, ch) ELSE aux.p,
                          length |-> aux.length + 1]
      aux == FoldLeft(Helper, [p |-> <<>>, length |-> 0], text)
  IN  [buffer |-> IF size > 0 THEN Append(aux.p, Null) ELSE <<>>, length |-> aux.length]

-----------------------------------------------------------------------------
\* A number in a format, or the star that stands for it.
Written(x) == CASE x.how = "star" -> <<"*">>
                [] x.how = "digits" -> IF x.n = 0 THEN <<>> ELSE <<DigitChars[x.n + 1]>>
                [] OTHER -> <<>>
TypeText(t) == CASE t = "hh" -> <<"h", "h">> [] t = "ll" -> <<"l", "l">>
                 [] t = "" -> <<>> [] OTHER -> <<t>>
\* A format with some text around its conversion.
FormatOf(c) ==
  <<"a", "%", "%", "%">> \o SetToSeq(c.flags) \o Written(c.width)
  \o (IF c.precision.how = "none" THEN <<>> ELSE <<".">>) \o Written(c.precision)
  \o TypeText(c.type) \o <<c.conv, "b">>
ArgsOf(c) == (IF c.width.how = "star" THEN <<c.width.n>> ELSE <<>>)
             \o (IF c.precision.how = "star" THEN <<c.precision.n>> ELSE <<>>)
             \o <<c.arg>>

Printed(c) == VPrintf(FormatOf(c), 1, ArgsOf(c))

Init ==
  \/ call \in [flags : SUBSET Flags, width : Widths, precision : Precisions,
               type : Types, conv : {"d", "o", "u", "x"}, arg : Values]
  \/ call \in [flags : SUBSET {"-"}, width : Widths, precision : Precisions,
               type : {""}, conv : {"s"}, arg : Strings \cup {Null}]
  \/ call \in [flags : {{}}, width : Widths, precision : {[how |-> "none", n |-> -1]},
               type : {""}, conv : {"p", "c", "f"}, arg : {1}]

Next == UNCHANGED call

-----------------------------------------------------------------------------
\* What C asks of a conversion, worked out from the first digit on.
LeftOf(c)  == "-" \in c.flags \/ c.width.n < 0
WidthOf(c) == AbsOf(c.width.n)
ValueOf(c) == IF c.conv = "d" THEN Wrap(c.arg, 2^Bits(c.type)) ELSE c.arg % 2^Bits(c.type)
DigitCount(v, b) == CHOOSE n \in 0 .. 2 * W : b^n > v /\ (n = 0 \/ b^(n - 1) <= v)
Numeral(v, b, n) == [k \in 1 .. n |-> DigitChars[((v \div b^(n - k)) % b) + 1]]

Body(c) ==
  LET v == AbsOf(ValueOf(c))
      b == BaseOf(c.conv)
      n == Most(DigitCount(v, b), IF c.precision.n < 0 THEN 1
                                  ELSE Least(c.precision.n, BufSize - 1))
      d == Numeral(v, b, n)
  IN  IF c.conv = "o" /\ "#" \in c.flags /\ (d = <<>> \/ d[1] # "0") THEN <<"0">> \o d ELSE d
Before(c) ==
  IF c.conv = "d" THEN Sign(ValueOf(c) < 0, c)
  ELSE IF c.conv = "x" /\ "#" \in c.flags /\ ValueOf(c) # 0 THEN <<"0", "x">> ELSE <<>>

\* Padded with blanks on the side that is not asked for, or with zeros.
Expected(c) ==
  LET pad == WidthOf(c) - Len(Before(c)) - Len(Body(c)) IN
  IF LeftOf(c) THEN Before(c) \o Body(c) \o Dup(" ", pad)
  ELSE IF "0" \in c.flags /\ c.precision.n < 0
  THEN Before(c) \o Dup("0", pad) \o Body(c)
  ELSE Dup(" ", pad) \o Before(c) \o Body(c)

\* A negative star asks for the left side, but does not take back the flag 0: the
\* code pads such a field on both sides, wider than asked.  Nothing is claimed of it.
PadsTwice(c) == "0" \in c.flags /\ "-" \notin c.flags /\ c.width.n < 0 /\ c.precision.n < 0

Inner(c) == LET p == Printed(c) IN SubSeq(p, 3, Len(p) - 1)

IntegerRight(c) ==
  LET p == Inner(c)
  IN  IF "'" \in c.flags
      THEN /\ Len(p) >= WidthOf(c)
           /\ "0" \notin c.flags /\ c.precision.n <= 1 =>
                SelectSeq(p, LAMBDA ch : ch \notin {",", " "}) =
                SelectSeq(Expected(c), LAMBDA ch : ch # " ")
      ELSE PadsTwice(c) \/ p = Expected(c)

StringRight(c) ==
  LET s == IF c.arg = Null THEN <<"(", "n", "u", "l", "l", ")">> ELSE c.arg
      t == IF c.precision.n < 0 THEN s ELSE SubSeq(s, 1, Least(c.precision.n, Len(s)))
      p == Inner(c)
  IN  /\ Len(p) = Most(Len(t), WidthOf(c))
      /\ IF LeftOf(c) THEN IsPrefix(t, p) ELSE IsSuffix(t, p)

\* A buffer gets as much of the text as it has room for, terminated, and the
\* result is the length of the whole text.
BufferRight(text, size) ==
  LET r == VSNPrintf(text, size) IN
  /\ r.length = Len(text)
  /\ IF size = 0 THEN r.buffer = <<>>
     ELSE /\ Len(r.buffer) = Least(Len(text), size - 1) + 1
          /\ Last(r.buffer) = Null
          /\ IsPrefix(Front(r.buffer), text)

\* Numbers and strings are printed as C says, digit for digit and as wide as
\* asked, but for fields PadsTwice excepts, and cut off where the buffer ends.
FormatRight ==
  IF call.conv \in {"d", "o", "u", "x"} THEN IntegerRight(call)
  ELSE /\ call.conv = "s" => StringRight(call)
       /\ \A size \in {0, 1, 3, 20} : BufferRight(Printed(call), size)
=============================================================================
