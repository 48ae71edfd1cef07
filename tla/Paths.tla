------------------------------- MODULE Paths -------------------------------
(***************************************************************************)
(* Path names, libc/stdlib/cwalk.c in its UNIX style, which the VFS uses   *)
(* to cut a path into segments, to normalise it and to find its directory. *)
(* A string is a sequence of characters and a pointer a position in it;    *)
(* the position behind the last character reads as the terminating zero.   *)
(* A segment that is not found is NoSeg.  The source and the buffer of a   *)
(* call do not overlap.                                                    *)
(***************************************************************************)
EXTENDS Integers, Sequences, SequencesExt, FiniteSetsExt

Zero  == "\\0"
Fill  == "?"                \* a byte of the buffer that was not written
NoSeg == [begin |-> 0]

At(s, i) == IF i <= Len(s) THEN s[i] ELSE Zero
cwk_path_is_separator(s, i) == At(s, i) = "/"

\* Pieces of strings are written into a buffer one after the other, as far as they
\* fit.
cwk_path_output_sized(buf, pos, str) ==
    [i \in DOMAIN buf |-> IF i \in pos + 1 .. pos + Len(str) THEN str[i - pos] ELSE buf[i]]
cwk_path_terminate_output(buf, pos) ==
    IF buf = <<>> THEN buf
    ELSE [buf EXCEPT ![IF pos >= Len(buf) THEN Len(buf) ELSE pos + 1] = Zero]
Output(size, strs) ==
    LET str == FlattenSeq(strs)
        buf == cwk_path_output_sized([i \in 1 .. size |-> Fill], 0, str)
    IN  [len |-> Len(str), out |-> cwk_path_terminate_output(buf, Len(str))]

-----------------------------------------------------------------------------
(* Segments of one path.  from is where the segments begin.                *)

cwk_path_find_next_stop(s, i) ==
    Min({j \in i .. Len(s) + 1 : At(s, j) \in {"/", Zero}})
cwk_path_find_previous_stop(s, begin, i) ==
    Max({begin} \cup {j + 1 : j \in {j \in begin .. i : cwk_path_is_separator(s, j)}})
Segment(s, from, begin) ==
    [s |-> s, from |-> from, begin |-> begin, end |-> cwk_path_find_next_stop(s, begin)]
SegText(g) == SubSeq(g.s, g.begin, g.end - 1)

\* The segment that begins behind the separators at i, if there is one.
Behind(s, from, i) ==
    LET names == {j \in i .. Len(s) : ~cwk_path_is_separator(s, j)}
    IN  IF names = {} THEN NoSeg ELSE Segment(s, from, Min(names))

cwk_path_get_root(s) == IF cwk_path_is_separator(s, 1) THEN 1 ELSE 0
cwk_path_is_absolute(s) == cwk_path_get_root(s) # 0
cwk_path_get_first_segment_without_root(s, from) == Behind(s, from, from)
cwk_path_get_first_segment(s) ==
    cwk_path_get_first_segment_without_root(s, cwk_path_get_root(s) + 1)
cwk_path_get_next_segment(g) == Behind(g.s, g.from, g.end)

\* A segment of one character at the very beginning is not found.
cwk_path_get_previous_segment(g) ==
    LET ends == {j \in g.from + 1 .. g.begin - 1 : ~cwk_path_is_separator(g.s, j)}
    IN  IF ends = {} THEN NoSeg
        ELSE [g EXCEPT !.end = Max(ends) + 1,
                       !.begin = cwk_path_find_previous_stop(g.s, g.from, Max(ends))]

RECURSIVE LastFrom(_)
LastFrom(g) ==
    IF g = NoSeg \/ cwk_path_get_next_segment(g) = NoSeg THEN g
    ELSE LastFrom(cwk_path_get_next_segment(g))
cwk_path_get_last_segment_without_root(s) ==
    LastFrom(cwk_path_get_first_segment_without_root(s, 1))
cwk_path_get_last_segment(s) == LastFrom(cwk_path_get_first_segment(s))

cwk_path_get_segment_type(g) ==
    CASE SegText(g) = <<".">>      -> "CWK_CURRENT"
      [] SegText(g) = <<".", ".">> -> "CWK_BACK"
      [] OTHER                     -> "CWK_NORMAL"

\* strncmp of the length of the first: the second may go on.
cwk_path_is_string_equal(g, h) ==
    \A k \in 0 .. g.end - g.begin - 1 : At(h.s, h.begin + k) = g.s[g.begin + k]

-----------------------------------------------------------------------------
(* Several paths as one: the segment seg of path k.                        *)

Joined(paths, k, g) == [paths |-> paths, k |-> k, seg |-> g]
NoJoined == Joined(<<>>, 0, NoSeg)

cwk_path_get_first_segment_joined(paths) ==
    LET some == {k \in DOMAIN paths : cwk_path_get_first_segment(paths[k]) # NoSeg}
    IN  IF some = {} THEN NoJoined
        ELSE Joined(paths, Min(some), cwk_path_get_first_segment(paths[Min(some)]))

cwk_path_get_next_segment_joined(j) ==
    LET next  == cwk_path_get_next_segment(j.seg)
        First(k) == cwk_path_get_first_segment_without_root(j.paths[k], 1)
        later == {k \in j.k + 1 .. Len(j.paths) : First(k) # NoSeg}
    IN  CASE next # NoSeg -> [j EXCEPT !.seg = next]
          [] next = NoSeg /\ later # {} -> Joined(j.paths, Min(later), First(Min(later)))
          [] OTHER -> NoJoined

cwk_path_get_previous_segment_joined(j) ==
    LET prev == cwk_path_get_previous_segment(j.seg)
        LastOf(k) == IF k = 1 THEN cwk_path_get_last_segment(j.paths[k])
                     ELSE cwk_path_get_last_segment_without_root(j.paths[k])
        earlier == {k \in 1 .. j.k - 1 : LastOf(k) # NoSeg}
    IN  CASE prev # NoSeg -> [j EXCEPT !.seg = prev]
          [] prev = NoSeg /\ earlier # {} -> Joined(j.paths, Max(earlier), LastOf(Max(earlier)))
          [] OTHER -> NoJoined

\* A name cancels a ".." behind it: count is names less backs between.
RECURSIVE cwk_path_segment_back_will_be_removed(_, _)
cwk_path_segment_back_will_be_removed(j, count) ==
    LET p == cwk_path_get_previous_segment_joined(j)
    IN  p # NoJoined /\
        LET type == cwk_path_get_segment_type(p.seg)
        IN  CASE type = "CWK_NORMAL" -> count + 1 > 0 \/
                                        cwk_path_segment_back_will_be_removed(p, count + 1)
              [] type = "CWK_BACK"   -> cwk_path_segment_back_will_be_removed(p, count - 1)
              [] OTHER               -> cwk_path_segment_back_will_be_removed(p, count)
RECURSIVE cwk_path_segment_normal_will_be_removed(_, _)
cwk_path_segment_normal_will_be_removed(j, count) ==
    LET n == cwk_path_get_next_segment_joined(j)
    IN  n # NoJoined /\
        LET type == cwk_path_get_segment_type(n.seg)
        IN  CASE type = "CWK_NORMAL" -> cwk_path_segment_normal_will_be_removed(n, count + 1)
              [] type = "CWK_BACK"   -> count - 1 < 0 \/
                                        cwk_path_segment_normal_will_be_removed(n, count - 1)
              [] OTHER               -> cwk_path_segment_normal_will_be_removed(n, count)

cwk_path_segment_will_be_removedKeepsBack(j, absolute) ==
    CASE cwk_path_get_segment_type(j.seg) = "CWK_CURRENT" -> TRUE
      [] cwk_path_get_segment_type(j.seg) = "CWK_BACK" ->
           cwk_path_segment_back_will_be_removed(j, 0)
      [] OTHER -> cwk_path_segment_normal_will_be_removed(j, 0)
cwk_path_segment_will_be_removed(j, absolute) ==
    CASE cwk_path_get_segment_type(j.seg) = "CWK_CURRENT" -> TRUE
      [] cwk_path_get_segment_type(j.seg) = "CWK_BACK" ->
           absolute \/ cwk_path_segment_back_will_be_removed(j, 0)
      [] OTHER -> cwk_path_segment_normal_will_be_removed(j, 0)

RECURSIVE cwk_path_segment_joined_skip_invisible(_, _)
cwk_path_segment_joined_skip_invisible(j, absolute) ==
    IF j = NoJoined \/ ~cwk_path_segment_will_be_removed(j, absolute) THEN j
    ELSE cwk_path_segment_joined_skip_invisible(cwk_path_get_next_segment_joined(j), absolute)

\* The visible segments from j on.
RECURSIVE Visible(_, _)
Visible(j, absolute) ==
    LET v == cwk_path_segment_joined_skip_invisible(j, absolute)
    IN  IF v = NoJoined THEN <<>>
        ELSE <<SegText(v.seg)>> \o Visible(cwk_path_get_next_segment_joined(v), absolute)

\* Segments with a separator between them; "." when there are none and no root.
Listed(names) ==
    FlattenSeq([k \in DOMAIN names |-> IF k = 1 THEN names[k] ELSE <<"/">> \o names[k]])

-----------------------------------------------------------------------------
(* The calls.                                                              *)

cwk_path_join_and_normalize_multiple(paths, size) ==
    LET root     == SubSeq(paths[1], 1, cwk_path_get_root(paths[1]))
        absolute == root # <<>>
        first    == cwk_path_get_first_segment_joined(paths)
        names    == IF first = NoJoined THEN <<>> ELSE Visible(first, absolute)
    IN  Output(size, <<root, IF first # NoJoined /\ names = <<>> /\ ~absolute THEN <<".">>
                             ELSE Listed(names)>>)

cwk_path_normalize(a, size) == cwk_path_join_and_normalize_multiple(<<a>>, size)
cwk_path_join(a, b, size) == cwk_path_join_and_normalize_multiple(<<a, b>>, size)
cwk_path_get_absolute(base, p, size) ==
    cwk_path_join_and_normalize_multiple(
        (IF cwk_path_is_absolute(base) THEN <<>> ELSE <<<<"/">>>>)
          \o (IF cwk_path_is_absolute(p) THEN <<p>> ELSE <<base, p>>), size)

RECURSIVE cwk_path_skip_segments_until_diverge(_, _, _)
cwk_path_skip_segments_until_diverge(b, o, absolute) ==
    LET bv == cwk_path_segment_joined_skip_invisible(b, absolute)
        ov == cwk_path_segment_joined_skip_invisible(o, absolute)
        bn == cwk_path_get_next_segment_joined(bv)
        on == cwk_path_get_next_segment_joined(ov)
    IN  IF bv = NoJoined \/ ov = NoJoined THEN <<bv, ov>>
        ELSE IF ~cwk_path_is_string_equal(bv.seg, ov.seg) THEN <<bv, ov>>
        ELSE IF bn = NoJoined \/ on = NoJoined THEN <<bn, on>>
        ELSE cwk_path_skip_segments_until_diverge(bn, on, absolute)

\* Without a first segment the code looks at one that was never set: not claimed of.
cwk_path_get_relative(base, p, size) ==
    LET absolute == cwk_path_is_absolute(base)
        rest == cwk_path_skip_segments_until_diverge(
                   cwk_path_get_first_segment_joined(<<base>>),
                   cwk_path_get_first_segment_joined(<<p>>), absolute)
        up   == [k \in DOMAIN Visible(rest[1], absolute) |-> <<".", ".">>]
        all  == up \o Visible(rest[2], absolute)
    IN  IF absolute /\ ~cwk_path_is_absolute(p)
          THEN [len |-> 0, out |-> [i \in 1 .. size |-> Fill]]
        ELSE Output(size, IF all = <<>> THEN <<<<".">>>> ELSE <<Listed(all)>>)

RECURSIVE Common(_, _, _, _)
Common(b, o, absolute, end) ==
    LET bv == cwk_path_segment_joined_skip_invisible(b, absolute)
        ov == cwk_path_segment_joined_skip_invisible(o, absolute)
    IN  IF bv = NoJoined \/ ov = NoJoined THEN end
        ELSE IF ~cwk_path_is_string_equal(bv.seg, ov.seg) THEN end
        ELSE Common(cwk_path_get_next_segment_joined(bv),
                    cwk_path_get_next_segment_joined(ov), absolute, bv.seg.end - 1)
cwk_path_get_intersection(base, other) ==
    LET root == cwk_path_get_root(base)
    IN  IF root # 0 /\ ~cwk_path_is_absolute(other) THEN 0
        ELSE Common(cwk_path_get_first_segment_joined(<<base>>),
                    cwk_path_get_first_segment_joined(<<other>>), root # 0, root)

cwk_path_get_dirname(s) ==
    LET g == cwk_path_get_last_segment(s)
    IN  IF g = NoSeg THEN 0 ELSE g.begin - 1
cwk_path_get_basename(s) ==
    LET g == cwk_path_get_last_segment(s)
    IN  IF g = NoSeg THEN <<>> ELSE SegText(g)

\* The last dot of the last segment and what follows it.
Dots(g) == {i \in g.begin .. g.end - 1 : g.s[i] = "."}
cwk_path_get_extension(s) ==
    LET g == cwk_path_get_last_segment(s)
    IN  IF g = NoSeg THEN <<>>
        ELSE IF Dots(g) = {} THEN <<>> ELSE SubSeq(s, Max(Dots(g)), g.end - 1)
cwk_path_change_extension(s, ext, size) ==
    LET g    == cwk_path_get_last_segment(s)
        bare == IF At(ext, 1) = "." THEN Tail(ext) ELSE ext
    IN  Output(size,
          IF g = NoSeg THEN <<SubSeq(s, 1, cwk_path_get_root(s)), <<".">>, bare>>
          ELSE <<SubSeq(s, 1, (IF Dots(g) = {} THEN g.end ELSE Max(Dots(g))) - 1),
                 <<".">>, bare, SubSeq(s, g.end, Len(s))>>)

\* Separators around a new name are left out.
Trimmed(s) ==
    LET names == {i \in DOMAIN s : s[i] # "/"}
    IN  IF names = {} THEN <<>> ELSE SubSeq(s, Min(names), Max(names))
cwk_path_change_segment(g, value, size) ==
    Output(size, <<SubSeq(g.s, 1, g.begin - 1), Trimmed(value), SubSeq(g.s, g.end, Len(g.s))>>)
cwk_path_change_basename(s, name, size) ==
    LET g == cwk_path_get_last_segment(s)
    IN  IF g # NoSeg THEN cwk_path_change_segment(g, name, size)
        ELSE Output(size, <<SubSeq(s, 1, cwk_path_get_root(s)), Trimmed(name)>>)
cwk_path_change_root(s, root, size) ==
    Output(size, <<root, SubSeq(s, cwk_path_get_root(s) + 1, Len(s))>>)

-----------------------------------------------------------------------------
Call(op, a, b, size) ==
    CASE op = "normalize" -> cwk_path_normalize(a, size)
      [] op = "join"      -> cwk_path_join(a, b, size)
      [] op = "absolute"  -> cwk_path_get_absolute(a, b, size)
      [] op = "relative"  -> cwk_path_get_relative(a, b, size)
      [] op = "extension" -> cwk_path_change_extension(a, b, size)
      [] op = "basename"  -> cwk_path_change_basename(a, b, size)
      [] op = "root"      -> cwk_path_change_root(a, b, size)
Two == {"join", "absolute", "relative", "extension", "basename", "root"}

\* A call with all that it gives: the buffer and the length returned, the text it
\* writes when there is room, and of one path its parts, each put back in its place.
Room == 40
Text(r) == SubSeq(r.out, 1, r.len)
Kept(a) ==
    [ext  |-> cwk_path_get_extension(a),
     dir  |-> SubSeq(a, 1, cwk_path_get_dirname(a)),
     back |-> {Text(cwk_path_change_extension(a, e, Room)) : e \in {cwk_path_get_extension(a)} \ {<<>>}}
                \cup {Text(cwk_path_change_basename(a, n, Room)) : n \in {cwk_path_get_basename(a)} \ {<<>>}}
                \cup {Text(cwk_path_change_root(a, SubSeq(a, 1, cwk_path_get_root(a)), Room))}]
Result(op, a, b, size) ==
    [op |-> op, a |-> a, b |-> b, size |-> size, text |-> Text(Call(op, a, b, Room))]
      @@ Call(op, a, b, size)
      @@ (CASE op = "normalize" -> Kept(a)
            [] op = "relative"  -> [common |-> SubSeq(a, 1, cwk_path_get_intersection(a, b))]
            [] op = "basename"  -> [dir |-> SubSeq(a, 1, cwk_path_get_dirname(a)),
                                    newdir |-> LET t == Text(Call(op, a, b, Room))
                                               IN  SubSeq(t, 1, cwk_path_get_dirname(t))]
            [] OTHER            -> <<>>)

\* Calls with paths of up to so many pieces, and with buffers of the sizes.
Texts(pieces, n) == {FlattenSeq(w) : w \in SeqOf(pieces, n)}
Singles(texts, sizes) == {Result("normalize", a, <<>>, size) : a \in texts, size \in sizes}
Pairs(texts, size)    == {Result(op, a, b, size) : op \in Two, a \in texts, b \in texts}
=============================================================================
