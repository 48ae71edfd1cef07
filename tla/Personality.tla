----------------------------- MODULE Personality -----------------------------
(***************************************************************************)
(* The tables of libcxxrt/exception.cc's personality function: what the    *)
(* LSDA of a function (EhTables) says about an exception of a type         *)
(* (TypeInfo) at a call site.                                              *)
(***************************************************************************)
EXTENDS EhTables, TypeInfo

CONSTANTS
    Ctx,         \* what the unwinder tells of the function
    TypeAt       \* address of a type_info -> its type

isCXXException(e) == e.cls \in {"cxx", "dep"}

\* Entry number filter of the type table, which grows downwards; 0 catches all.
get_type_info_entry(b, l, filter) ==
    LET at == l.type_table - dwarf_size_of_fixed_size_field(l.type_table_encoding) * filter
        v  == read_value(l.type_table_encoding, b, at).v
    IN  IF v = 0 THEN 0 ELSE resolve_indirect_value(Ctx, l.type_table_encoding, v, at)

\* The address the handler gets, or Fail.  The thrown object of a pointer type holds
\* an address of a complete object.
check_type_signature(e, addr) ==
    IF addr = 0 THEN 0
    ELSE IF ~isCXXException(e) THEN Fail
    ELSE LET type  == TypeAt[addr]
             whole == IF is_pointer_p(e.type) THEN Info[e.type].pointee ELSE e.type
         IN  IF type = e.type THEN 0 ELSE do_catch(type, e.type, 0, TRUE, whole)

\* The chain of action records of a call site.
RECURSIVE action_from(_, _, _, _, _)
action_from(b, l, at, e, found) ==
    LET filter == read_sleb128(b, at)
        disp   == read_sleb128(b, filter.at)
        next   == IF disp.v = 0 THEN 0 ELSE filter.at + disp.v
        type   == get_type_info_entry(b, l, filter.v)
        spec   == l.type_table - filter.v - 1
        ends   == Min({i \in spec .. Len(b) : b[i] = 0})
        allowed == \E i \in spec .. ends - 1 :
                     check_type_signature(e, get_type_info_entry(b, l, b[i])) # Fail
        On(f)  == action_from(b, l, next, e, f)
    IN  IF at = 0 THEN found
        ELSE CASE filter.v > 0 ->
                    IF check_type_signature(e, type) # Fail
                      THEN [kind |-> "catch", sel |-> filter.v, adj |-> check_type_signature(e, type)]
                      ELSE On(found)
               [] filter.v < 0 /\ isCXXException(e) ->
                    IF allowed THEN On([found EXCEPT !.sel = filter.v])
                    ELSE [kind |-> "catch", sel |-> filter.v, adj |-> 0]
               [] filter.v < 0 /\ ~isCXXException(e) -> On(found)
               [] filter.v = 0 -> On([found EXCEPT !.kind = "cleanup", !.sel = 0])
check_action_record(b, l, at, e) ==
    IF at = 0 THEN [kind |-> "cleanup", sel |-> 0, adj |-> 0]
    ELSE action_from(b, l, at, e, [kind |-> "none", sel |-> 0, adj |-> 0])

\* What the tables say about a frame, for the type of an exception.
Nothing(kind) == [kind |-> kind, pad |-> 0, sel |-> 0, adj |-> 0]
Action(c, a)  == [kind |-> a.kind, pad |-> c.pad, sel |-> a.sel, adj |-> a.adj]
Lookup2(b, l, c, e) ==
    IF ~c.found THEN Nothing("gap") ELSE Action(c, check_action_record(b, l, c.action, e))
Lookup1(b, ip, l, e) == Lookup2(b, l, dwarf_eh_find_callsite(Ctx, b, l, ip), e)
Lookup(site, e) ==
    IF site.lsda = <<>> THEN Nothing("nothing")
    ELSE Lookup1(site.lsda, site.ip, parse_lsda(Ctx, site.lsda), e)

\* The same for sites and for types of exceptions, as a function; what C++ means for
\* types of clauses; and every dynamic_cast.
Classed(thrown) == {<<"cxx", t>> : t \in thrown} \cup {<<"foreign", "none">>}
Table(sites, thrown) ==
    [x \in (DOMAIN sites) \X Classed(thrown) |->
        Lookup(sites[x[1]], [cls |-> x[2][1], type |-> x[2][2]])]
Meant == [x \in (DOMAIN Info) \X (DOMAIN Info) |-> MeantAt(x[1], x[2])]
Casts == [x \in Classes \X Classes |-> dynamic_cast(x[2], x[1])]
=============================================================================
