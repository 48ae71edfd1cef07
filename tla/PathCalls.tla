------------------------------ MODULE PathCalls ------------------------------
(***************************************************************************)
(* The calls of libc/stdlib/cwalk.c (module Paths) against what paths      *)
(* mean.                                                                   *)
(***************************************************************************)
EXTENDS Integers, Sequences

CONSTANT Calls   \* results of the calls (Paths!Results)

VARIABLE path    \* op, a, b, size: the call; len, out, text ...: what it gives

Init == path = [op |-> "none"]
Next ==
    /\ path.op = "none"
    /\ \E r \in Calls : path' = r

-----------------------------------------------------------------------------
(* What a path means: the names left when every ".." takes one away.       *)

IsAbsolute(s) == s # <<>> /\ Head(s) = "/"
RECURSIVE Cut(_, _, _)
Cut(s, done, cur) ==
    IF s = <<>> THEN IF cur = <<>> THEN done ELSE Append(done, cur)
    ELSE IF Head(s) # "/" THEN Cut(Tail(s), done, Append(cur, Head(s)))
    ELSE Cut(Tail(s), IF cur = <<>> THEN done ELSE Append(done, cur), <<>>)
Names(s) == Cut(s, <<>>, <<>>)

Dot  == <<".">>
Back == <<".", ".">>
RECURSIVE Left(_, _, _)
Left(absolute, names, t) ==
    IF names = <<>> THEN t
    ELSE Left(absolute, Tail(names),
              CASE Head(names) = Dot -> t
                [] Head(names) = Back /\ t # <<>> /\ t[Len(t)] # Back -> SubSeq(t, 1, Len(t) - 1)
                [] Head(names) = Back /\ t = <<>> /\ absolute -> t
                [] OTHER -> Append(t, Head(names)))
Resolve(absolute, names) == Left(absolute, names, <<>>)
Prefix(x, y) == x # y /\ Len(x) <= Len(y) /\ SubSeq(y, 1, Len(x)) = x

\* Where the code is known to differ: a relative path whose first name has one
\* character, and names that begin like names of the other path.
Hidden(s)  == Len(s) > 1 /\ s[1] # "/" /\ s[2] = "/"
OneChar(n) == n # <<>> /\ Len(n[1]) = 1
SomePrefix(m, n) == \E i \in DOMAIN m, j \in DOMAIN n : Prefix(m[i], n[j])
Alike(a, b) == SomePrefix(Names(a), Names(b))

Means(out, absolute, names) ==
    /\ absolute = IsAbsolute(out)
    /\ Names(out) \in {Resolve(absolute, names)}
         \cup (IF absolute THEN {} ELSE {<<Dot>>})
    /\ Resolve(absolute, Names(out)) = Resolve(absolute, names)

\* A buffer of any size has as much of the text as fits, then a zero.
Fits(text, size, out) ==
    out = [k \in 1 .. size |-> IF k <= Len(text) /\ k < size THEN text[k]
                               ELSE IF k <= Len(text) + 1 THEN "\\0" ELSE "?"]
Res(s) == Resolve(TRUE, Names(s))
Longest(c, x, y) ==
    /\ SubSeq(x, 1, Len(c)) = c /\ SubSeq(y, 1, Len(c)) = c
    /\ Len(c) < Len(x) /\ Len(c) < Len(y) => x[Len(c) + 1] # y[Len(c) + 1]
Same(m, n) == m # <<>> /\ m[Len(m)] = n[Len(n)]
Both   == IsAbsolute(path.a) /\ IsAbsolute(path.b)

\* In a buffer of any size the result is cut off and terminated, nothing behind it is
\* written and its full length is returned; it has exactly the names that are left
\* when every ".." has taken one away; the relative path, taken from the base, leads
\* to the other path, and what two paths have in common is the longest beginning of
\* both; and a part of a path replaced by itself leaves the path as it was
\* (cwk_path_join_and_normalize_multiple, get_absolute, get_relative,
\* get_intersection, change_extension, change_basename, change_root).
PathsSound ==
    path.op # "none" =>
      /\ path.len = Len(path.text)
      /\ path.op # "relative" \/ Both => Fits(path.text, path.size, path.out)
      /\ path.op = "normalize" =>
           /\ ~Hidden(path.a) => Means(path.text, IsAbsolute(path.a), Names(path.a))
           /\ path.back = {path.a}
           /\ Names(path.dir) = SubSeq(Names(path.a), 1, Len(Names(path.a)) - 1)
      /\ path.op = "join" /\ ~Hidden(path.a) /\ ~Hidden(path.b)
           /\ ~(path.a = <<>> /\ OneChar(Names(path.b))) =>
           Means(path.text, IsAbsolute(path.a), Names(path.a) \o Names(path.b))
      /\ path.op = "absolute" =>
           Means(path.text, TRUE,
                 (IF IsAbsolute(path.b) THEN <<>> ELSE Names(path.a)) \o Names(path.b))
      /\ path.op = "relative" /\ Both /\ ~Alike(path.a, path.b)
           /\ Names(path.a) # <<>> /\ Names(path.b) # <<>> =>
             /\ Res(path.a \o <<"/">> \o path.text) = Res(path.b)
             /\ Longest(Res(path.common), Res(path.a), Res(path.b))
      /\ path.op = "basename" =>
           /\ Names(path.b) # <<>> => Same(Names(path.text), Names(path.b))
           /\ Names(path.a) # <<>> /\ Len(Names(path.b)) = 1 => path.newdir = path.dir
=============================================================================
