------------------------------- MODULE Format -------------------------------
(***************************************************************************)
(* libc/stdio/vsnprintf.c, through which everything the kernel prints      *)
(* goes.  A format is a sequence of characters, the arguments a sequence   *)
(* of numbers (in two's complement, with int and long long of a few bits)  *)
(* and strings.  What the code does for ever or what leaves the arguments  *)
(* is an outcome of its own.                                               *)
(***************************************************************************)
EXTENDS Integers, Sequences, SequencesExt, FiniteSetsExt

CONSTANTS
    Calls,       \* calls with what they give (Results)
    CharBits, IntBits, LongBits

VARIABLE fm      \* fmt, args, size: the call; out, len, end: what it gives

Zero == "\\0"
At(s, i) == IF i <= Len(s) THEN s[i] ELSE Zero
Digit == <<"0", "1", "2", "3", "4", "5", "6", "7", "8", "9", "a", "b", "c", "d", "e", "f">>
isdigit(c) == \E k \in 1 .. 10 : Digit[k] = c
DigitOf(c) == CHOOSE k \in 0 .. 9 : Digit[k + 1] = c

\* A character goes to ptr if that is inside the buffer; ptr goes on.
Put(b, c) == [b EXCEPT !.ptr = @ + 1,
                       !.out = IF b.ptr < Len(b.out) THEN [@ EXCEPT ![b.ptr + 1] = c] ELSE @]
RECURSIVE PutAll(_, _)
PutAll(b, s) == IF s = <<>> THEN b ELSE PutAll(Put(b, Head(s)), Tail(s))
Pad(b, c, n) == PutAll(b, [k \in 1 .. n |-> c])
Times(n)     == IF n > 0 THEN n ELSE 0

\* memcpy of the characters there is room for.
CopyString(b, str, slen) ==
    [b EXCEPT !.ptr = @ + slen,
              !.out = [k \in DOMAIN @ |-> IF k \in b.ptr + 1 .. b.ptr + slen THEN str[k - b.ptr] ELSE @[k]]]
StringLen(str, prec) == IF 0 < prec /\ prec < Len(str) THEN prec ELSE Len(str)
fmt_string(b, str, flags, width, prec) ==
    IF "left" \in flags
      THEN Pad(CopyString(b, str, StringLen(str, prec)), " ", Times(width - StringLen(str, prec)))
      ELSE CopyString(Pad(b, " ", Times(width - StringLen(str, prec))), str, StringLen(str, prec))

RECURSIVE DigitsOf(_, _)
DigitsOf(num, base) ==
    IF num < base THEN <<Digit[num + 1]>> ELSE DigitsOf(num \div base, base) \o <<Digit[(num % base) + 1]>>

\* The digits of a negative number are those of its unsigned pattern.
SignOf(num, flags) ==
    CASE "sign" \notin flags          -> <<>>
      [] "sign" \in flags /\ num >= 2 ^ (LongBits - 1) -> <<"-">>
      [] OTHER -> IF "plus" \in flags THEN <<"+">> ELSE IF "space" \in flags THEN <<" ">> ELSE <<>>
PrefixOf(base, flags) ==
    IF "prefix" \notin flags \/ base # 16 THEN <<>>
    ELSE <<"0", IF "lower" \in flags THEN "x" ELSE "X">>
PrefixWidth(num, base, flags) ==
    IF "prefix" \notin flags THEN 0 ELSE IF base = 16 THEN 2 ELSE IF num # 0 THEN 1 ELSE 0

\* The loops that count width and precision down: what is left of the width is
\* width; p is the precision without the digits.  A digit that finds no room is
\* tried again for ever.
Digits3(b, digits) ==
    IF b.ptr + Len(digits) > Len(b.out) THEN [PutAll(b, digits) EXCEPT !.end = "hangs"]
    ELSE PutAll(b, digits)
Digits2(b, digits, flags, width, p) ==
    IF "left" \in flags THEN Pad(Digits3(Pad(b, "0", Times(p - Len(digits))), digits), " ", Times(width))
    ELSE Digits3(Pad(Pad(b, IF "zero" \in flags THEN "0" ELSE " ", Times(width)), "0",
                     Times(p - Len(digits))), digits)
Digits1(b, digits, flags, width, p, head) ==
    IF flags \cap {"zero", "left"} # {} THEN Digits2(PutAll(b, head), digits, flags, width, p)
    ELSE Digits2(PutAll(Pad(b, " ", Times(width - 1)), head), digits, flags,
                 width - 1 - Times(width - 1), p)
fmt_number(b, num, base, flags, width, prec, digits) ==
    Digits1(b, digits, flags,
            width - Len(SignOf(num, flags)) - PrefixWidth(num, base, flags) - Len(digits)
                  - Times(prec - Len(digits)),
            prec - Len(digits), SignOf(num, flags) \o PrefixOf(base, flags))

-----------------------------------------------------------------------------
(* The loop over the format.  s has fmt, the place at, the arguments and   *)
(* the buffer; d the directive being parsed.                               *)

Flag == ("-" :> "left") @@ ("+" :> "plus") @@ (" " :> "space") @@ ("#" :> "prefix") @@ ("0" :> "zero")
RECURSIVE parse_flags(_, _)
parse_flags(s, d) ==
    IF At(s.fmt, d.at) \in DOMAIN Flag
      THEN parse_flags(s, [d EXCEPT !.at = @ + 1, !.flags = @ \cup {Flag[At(s.fmt, d.at)]}])
      ELSE d
RECURSIVE number(_, _, _)
number(s, at, n) ==
    IF isdigit(At(s.fmt, at)) THEN number(s, at + 1, n * 10 + DigitOf(s.fmt[at])) ELSE [at |-> at, v |-> n]
IntArg(d) == Head(d.args).v
parse_width(s, d) ==
    CASE isdigit(At(s.fmt, d.at)) ->
           [d EXCEPT !.at = number(s, d.at, 0).at, !.width = number(s, d.at, 0).v]
      [] At(s.fmt, d.at) = "*" -> [d EXCEPT !.at = @ + 1, !.width = IntArg(d), !.args = Tail(@)]
      [] OTHER -> d
parse_precision(s, d) ==
    IF At(s.fmt, d.at) # "." THEN d
    ELSE CASE isdigit(At(s.fmt, d.at + 1)) ->
                [d EXCEPT !.at = number(s, d.at + 1, 0).at, !.prec = number(s, d.at + 1, 0).v]
           [] At(s.fmt, d.at + 1) = "*" ->
                [d EXCEPT !.at = @ + 2, !.prec = IntArg(d), !.args = Tail(@)]
           [] OTHER -> [d EXCEPT !.at = @ + 1]

\* Two characters are taken whatever the second one is.
parse_qualifierOne(s, d) ==
    IF At(s.fmt, d.at) \in {"h", "l", "z", "t"}
      THEN [d EXCEPT !.at = @ + 1, !.qual = At(s.fmt, d.at)] ELSE d
parse_qualifier(s, d) ==
    IF At(s.fmt, d.at) \in {"h", "l", "z", "t"}
      THEN [d EXCEPT !.at = @ + 2, !.qual = At(s.fmt, d.at + 1)] ELSE d

\* va_arg of the width the qualifier asks for; without one always unsigned.
Signed(v, bits) == IF v % 2 ^ bits >= 2 ^ (bits - 1) THEN (v % 2 ^ bits) - 2 ^ bits ELSE v % 2 ^ bits
retrieve(v, qual, flags) ==
    CASE qual = "h" -> (IF "sign" \in flags THEN Signed(v, CharBits) ELSE v % 2 ^ CharBits) % 2 ^ LongBits
      [] qual = "l" -> v % 2 ^ LongBits
      [] OTHER      -> v % 2 ^ IntBits

Base(c) == CASE c = "o" -> 8 [] c \in {"p", "x", "X"} -> 16 [] OTHER -> 10
More(c) == CASE c \in {"p", "x"} -> {"lower"} [] c \in {"d", "i"} -> {"sign"} [] OTHER -> {}
Wrong(s) == [s EXCEPT !.buf.end = "wrong"]
After(s, d, b) == [s EXCEPT !.at = d.at + 1, !.args = d.args, !.buf = b]

\* A character that finds no room does not take its argument.
char(s, d, b) ==
    LET in == b.ptr < Len(b.out)
        c  == IF in THEN Put(b, Head(d.args).v) ELSE [b EXCEPT !.ptr = @ + 1]
    IN  [After(s, d, IF "left" \in d.flags THEN Pad(c, " ", Times(d.width - 1)) ELSE c)
           EXCEPT !.args = IF in THEN Tail(@) ELSE @]
specifier(s, d, c) ==
    CASE c = "%" -> After(s, d, Put(s.buf, "%"))
      [] c = "c" -> char(s, d, IF "left" \in d.flags THEN s.buf ELSE Pad(s.buf, " ", Times(d.width - 1)))
      [] c = "s" -> IF Head(d.args).kind # "str" THEN Wrong(s)
                    ELSE [After(s, d, fmt_string(s.buf, Head(d.args).v, d.flags, d.width, d.prec))
                            EXCEPT !.args = Tail(@)]
      [] c \in {"o", "p", "x", "X", "d", "i", "u"} ->
           IF Head(d.args).kind # "int" THEN Wrong(s)
           ELSE LET flags == d.flags \cup More(c)
                    num   == retrieve(Head(d.args).v, IF c = "p" THEN "l" ELSE d.qual, flags)
                IN  [After(s, d, fmt_number(s.buf, num, Base(c), flags, d.width, d.prec,
                                            DigitsOf(num, Base(c))))
                       EXCEPT !.args = Tail(@)]
      [] OTHER -> [s EXCEPT !.at = d.at, !.args = d.args]

Parsed(s, d) ==
    parse_qualifier(s, parse_precision(s, parse_width(s, parse_flags(s, d))))
RECURSIVE run(_)
run(s) ==
    IF s.at > Len(s.fmt) \/ s.buf.end # "returns" THEN s.buf
    ELSE IF s.fmt[s.at] # "%"
      THEN run([s EXCEPT !.at = @ + 1, !.buf = Put(@, s.fmt[s.at])])
    ELSE LET d == Parsed(s, [at |-> s.at + 1, flags |-> {}, width |-> -1, prec |-> -1, qual |-> "",
                             args |-> s.args])
         IN  run(specifier(s, d, At(s.fmt, d.at)))

\* At the end a zero, at the last byte if there is no room.
terminated(b) ==
    IF b.out = <<>> THEN b
    ELSE [b EXCEPT !.out[IF b.ptr < Len(b.out) THEN b.ptr + 1 ELSE Len(b.out)] = Zero]
vsnprintf(size, fmt, args) ==
    terminated(run([fmt |-> fmt, at |-> 1, args |-> args,
                    buf |-> [out |-> [k \in 1 .. size |-> "?"], ptr |-> 0, end |-> "returns"]]))

-----------------------------------------------------------------------------
(* Calls with one directive d between a character and a string.            *)

Room == 30
Args(d) ==
    (IF d.width = <<"*">> THEN <<[kind |-> "int", v |-> d.star]>> ELSE <<>>)
      \o (IF d.conv = "%" THEN <<>> ELSE <<d.arg>>) \o <<[kind |-> "str", v |-> <<"y", "z">>]>>
Format(d) == <<"<", "%">> \o d.flags \o d.width \o d.prec \o d.qual \o <<d.conv, "%", "s">>
Whole(b) == [text |-> SubSeq(b.out, 1, b.ptr), ends |-> b.end]
Result(d, size) ==
    [d |-> d, size |-> size] @@ vsnprintf(size, Format(d), Args(d))
      @@ Whole(vsnprintf(Room, Format(d), Args(d)))
Results(ds, sizes) == {Result(d, size) : d \in ds, size \in sizes}

Init == fm = [end |-> "none"]
Next ==
    /\ fm.end = "none"
    /\ \E r \in Calls : fm' = r

-----------------------------------------------------------------------------
(* What a directive means in C.                                            *)

Has(d, f)   == \E k \in DOMAIN d.flags : d.flags[k] = f
Width(d)    == IF d.width = <<>> THEN 0 ELSE IF d.width = <<"*">> THEN d.star ELSE DigitOf(d.width[1])
Numeric(d)  == d.conv \in {"d", "u", "x", "X", "o", "p"}
Blank(n)    == [k \in 1 .. n |-> " "]
Body(d) ==
    CASE d.conv = "%" -> <<"%">>
      [] d.conv = "c" -> <<d.arg.v>>
      [] d.conv = "s" -> SubSeq(d.arg.v, 1, IF d.prec = <<>> THEN Len(d.arg.v)
                                            ELSE Min({Len(d.arg.v), DigitOf(d.prec[2])}))
      [] OTHER        -> DigitsOf(d.arg.v, Base(d.conv))
Lead(d) ==
    CASE d.conv = "d" -> IF Has(d, "+") THEN <<"+">> ELSE IF Has(d, " ") THEN <<" ">> ELSE <<>>
      [] d.conv \in {"x", "X", "p"} /\ Has(d, "#") -> <<"0", IF d.conv = "X" THEN "X" ELSE "x">>
      [] OTHER -> <<>>
Meant2(d, lead, body, fill) ==
    IF Has(d, "-") THEN lead \o body \o Blank(fill)
    ELSE IF Has(d, "0") /\ Numeric(d) THEN lead \o [k \in 1 .. fill |-> "0"] \o body
    ELSE Blank(fill) \o lead \o body
Meant(d) ==
    Meant2(d, Lead(d), Body(d), IF d.conv = "%" THEN 0 ELSE Times(Width(d) - Len(Lead(d) \o Body(d))))

\* Where the code is known to differ: numbers padded with spaces on the left, that
\* are one short, and with a precision; negative numbers; capital digits; # with o,
\* d, u or 0; a precision of 0; one qualifier instead of two.
MaxOf(d) == 2 ^ (IF d.conv = "p" \/ d.qual = <<"l", "l">> THEN LongBits
                 ELSE IF d.qual = <<"h", "h">> THEN CharBits ELSE IntBits)
Plain(d) ==
    /\ Len(d.qual) # 1
    /\ d.prec # <<".", "0">>
    /\ Numeric(d) =>
         /\ d.prec = <<>>
         /\ d.arg.v >= 0 /\ d.arg.v < MaxOf(d) \div (IF d.conv = "d" THEN 2 ELSE 1)
         /\ Width(d) > Len(Lead(d) \o Body(d)) => Has(d, "-") \/ Has(d, "0")
         /\ d.conv = "X" => \A k \in DOMAIN Body(d) : isdigit(Body(d)[k])
         /\ Has(d, "#") => d.conv \in {"x", "X", "p"} /\ d.arg.v # 0

\* As much of the text as fits, then a zero.
Fits(text, size, out) ==
    out = [k \in 1 .. size |-> IF k <= Len(text) /\ k < size THEN text[k]
                               ELSE IF k <= Len(text) + 1 THEN Zero ELSE "?"]

\* Whatever flags, width, precision, qualifier and argument a directive has, a call
\* writes inside its buffer exactly the beginning of what it writes when there is
\* room, with a zero behind it, and returns the length of the whole; it fails to
\* return, or takes a wrong argument, only when a number or a character is cut off;
\* and where the code is not known to differ the text is what C says (vsnprintf,
\* fmt_string, fmt_number).
FormatSound ==
    fm.end # "none" =>
      /\ fm.ends = "returns"
      /\ fm.end # "returns" => fm.size < Len(fm.text)
      /\ fm.end = "returns" => fm.ptr = Len(fm.text) /\ Fits(fm.text, fm.size, fm.out)
      /\ Plain(fm.d) => fm.text = <<"<">> \o Meant(fm.d) \o <<"y", "z">>
=============================================================================
