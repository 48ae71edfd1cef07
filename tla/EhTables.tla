------------------------------ MODULE EhTables ------------------------------
(***************************************************************************)
(* libcxxrt/dwarf_eh.h: the bytes of a function's language-specific data   *)
(* area (LSDA) as the exception personality reads them.  A table is a      *)
(* sequence of bytes, an address in it an index; 0 is the null pointer.    *)
(***************************************************************************)
EXTENDS Integers, Sequences, SequencesExt, FiniteSetsExt

DW_EH_PE_absptr  == 0
DW_EH_PE_uleb128 == 1
DW_EH_PE_sleb128 == 9
DW_EH_PE_signed  == 8
DW_EH_PE_omit    == 255

\* Low four bits: how the number is stored.  Bits 4 to 6: what it is relative to.
\* Bit 7: it is the address of the value.
get_encoding(x) == x % 16
get_base(x)     == (x \div 16) % 8
is_indirect(x)  == x >= 128

\* The table of the model has no other encodings: they abort.
dwarf_size_of_fixed_size_field(x) ==
    CASE get_encoding(x) \in {2, 10} -> 2
      [] get_encoding(x) \in {3, 11} -> 4
      [] get_encoding(x) \in {4, 12, DW_EH_PE_absptr} -> 8

\* A number read at an address: its value, the address behind it and the bits read,
\* digit after digit while the high bit is set.
RECURSIVE read_leb128(_, _)
read_leb128(b, at) ==
    IF b[at] < 128 THEN [v |-> b[at], at |-> at + 1, bits |-> 7]
    ELSE LET r == read_leb128(b, at + 1)
         IN  [v |-> r.v * 128 + (b[at] - 128), at |-> r.at, bits |-> r.bits + 7]
read_uleb128(b, at) == read_leb128(b, at)
read_sleb128(b, at) ==
    LET r == read_leb128(b, at)
    IN  IF r.v \div 2 ^ (r.bits - 1) = 1 THEN [r EXCEPT !.v = @ - 2 ^ r.bits] ELSE r

\* Fixed-size fields are little-endian; the signed ones, and absptr, extend the sign
\* of their highest byte.
RECURSIVE read_fixed(_, _, _, _)
read_fixed(n, signed, b, at) ==
    IF n = 0 THEN [v |-> IF signed /\ b[at - 1] >= 128 THEN -1 ELSE 0, at |-> at, bits |-> 0]
    ELSE LET r == read_fixed(n - 1, signed, b, at + 1)
         IN  [v |-> r.v * 256 + b[at], at |-> r.at, bits |-> r.bits + 8]
read_value(enc, b, at) ==
    CASE get_encoding(enc) = DW_EH_PE_uleb128 -> read_uleb128(b, at)
      [] get_encoding(enc) = DW_EH_PE_sleb128 -> read_sleb128(b, at)
      [] OTHER -> read_fixed(dwarf_size_of_fixed_size_field(enc),
                             enc % 16 >= DW_EH_PE_signed \/ enc % 16 = DW_EH_PE_absptr, b, at)

\* The address a number means: relative to its own place (pcrel), to the text, to the
\* data, to the function, or absolute.  c has the bases, and the words in memory.
resolve_indirect_value(c, enc, v, start) ==
    LET base == CASE get_base(enc) = 1 -> start
                     [] get_base(enc) = 2 -> c.text
                     [] get_base(enc) = 3 -> c.data
                     [] get_base(enc) = 4 -> c.region
                     [] OTHER             -> 0
        a == v + base
    IN  IF is_indirect(enc) THEN c.word[a] ELSE a

\* An encoding and a number; an omitted one leaves the value it had.
read_value_with_encoding(c, b, at, old) ==
    IF b[at] = DW_EH_PE_omit THEN [v |-> old, at |-> at + 1]
    ELSE LET r == read_value(b[at], b, at + 1)
         IN  [v |-> resolve_indirect_value(c, b[at], r.v, at), at |-> r.at]

\* The header: where the landing pads count from, the type table, and the call-site
\* table with the action table behind it.
parse_lsda(c, b) ==
    LET lp    == read_value_with_encoding(c, b, 1, c.region)
        tenc  == b[lp.at]
        types == IF tenc = DW_EH_PE_omit THEN [v |-> 0, at |-> lp.at + 1]
                 ELSE LET r == read_uleb128(b, lp.at + 1) IN [v |-> r.at + r.v, at |-> r.at]
        size  == read_uleb128(b, types.at + 1)
    IN  [landing_pads |-> lp.v, type_table |-> types.v, type_table_encoding |-> tenc,
         callsite_encoding |-> b[types.at], call_site_table |-> size.at,
         action_table |-> size.at + size.v]

\* The call site that ip, the address behind the call, is in: (start, start + size].
\* The sites are sorted.  The loop runs while at <= action_table, so that behind the
\* last site the first bytes of the action table are read as one more.
RECURSIVE callsite_from(_, _, _, _)
callsite_from(b, l, ip, at) ==
    LET start == read_value(l.callsite_encoding, b, at)
        size  == read_value(l.callsite_encoding, b, start.at)
        pad   == read_value(l.callsite_encoding, b, size.at)
        act   == read_uleb128(b, pad.at)
    IN  IF at > l.action_table \/ start.v > ip THEN [found |-> FALSE, pad |-> 0, action |-> 0]
        ELSE IF start.v < ip /\ ip <= start.v + size.v
          THEN [found |-> TRUE,
                pad    |-> IF pad.v = 0 THEN 0 ELSE l.landing_pads + pad.v,
                action |-> IF act.v = 0 THEN 0 ELSE l.action_table + act.v - 1]
        ELSE callsite_from(b, l, ip, act.at)
dwarf_eh_find_callsite(c, b, l, ip) == callsite_from(b, l, ip - c.region, l.call_site_table)
=============================================================================
