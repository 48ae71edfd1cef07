------------------------------ MODULE TypeInfo ------------------------------
(***************************************************************************)
(* libcxxrt/dynamic_cast.cc and typeinfo.h: upcasts between classes,       *)
(* matching of a thrown type with the type of a catch, and dynamic_cast.   *)
(* An address is an offset from the start of the complete object.          *)
(***************************************************************************)
LOCAL INSTANCE Integers
LOCAL INSTANCE FiniteSetsExt

CONSTANTS
    Info,        \* type -> [kind, bases (a sequence of [type, off, virt]), pointee, flags]
    Vbase        \* complete class -> offset of its virtual base

\* kind: "class" without bases, "si" one base at offset 0, "vmi" several or virtual
\* ones, "ptr", "void", "fund".
Classes == {t \in DOMAIN Info : Info[t].kind \in {"class", "si", "vmi"}}
Fail == -1

\* type_info::operator== compares the names, which are unique.
is_pointer_p(t) == Info[t].kind = "ptr"

\* The subobject of class target in the object of class t at obj, or Fail: the bases
\* in order, the first that has it.  The offset of a virtual base comes from the
\* vtable, that is from the complete class.
RECURSIVE do_upcast(_, _, _, _)
do_upcast(t, target, obj, whole) ==
    LET b      == Info[t].bases
        Base(i) == IF b[i].virt THEN Vbase[whole] ELSE obj + b[i].off
        Up(i)  == do_upcast(b[i].type, target, Base(i), whole)
        hits   == {i \in DOMAIN b : Up(i) # Fail}
    IN  CASE t = target            -> obj
          [] Info[t].kind = "si"   -> do_upcast(b[1].type, target, obj, whole)
          [] Info[t].kind = "vmi" /\ hits # {} -> Up(Min(hits))
          [] OTHER                 -> Fail

\* A handler of one type and an exception of another; both may be pointers.  outer:
\* all the pointers passed so far are const qualified.
RECURSIVE do_catch(_, _, _, _, _)
do_catch(type, ex_type, obj, outer, whole) ==
    LET h == Info[type]
        e == Info[ex_type]
    IN  CASE type = ex_type -> obj
          [] type # ex_type /\ h.kind = "ptr" ->
               IF e.kind # "ptr" \/ ~outer \/ ~(e.flags \subseteq h.flags) THEN Fail
               ELSE IF h.pointee = "void" THEN obj
               ELSE do_catch(h.pointee, e.pointee, obj, "const" \in h.flags, whole)
          [] type # ex_type /\ type \in Classes -> do_upcast(ex_type, type, obj, whole)
          [] OTHER -> Fail

\* cast_to of the three kinds of class, from the complete object.
cast_to(t, obj, other) == do_upcast(t, other, obj, t)
dynamic_cast(whole, dst) == cast_to(whole, 0, dst)

-----------------------------------------------------------------------------
\* Reference: the subobjects of a class, as a set of <<class, offset>>.
RECURSIVE Subobjects(_, _, _)
Subobjects(t, at, whole) ==
    {<<t, at>>} \cup UNION {Subobjects(b.type, IF b.virt THEN Vbase[whole] ELSE at + b.off, whole) :
                              b \in {Info[t].bases[i] : i \in DOMAIN Info[t].bases}}
Parts(t) == Subobjects(t, 0, t)

\* Where C++ lets a handler of a type catch an exception of a type: the same type, an
\* unambiguous base, a pointer to one with at least the qualifiers, or void*.
MeantAt(type, ex_type) ==
    LET h == Info[type]
        e == Info[ex_type]
        In(base, t) == {p[2] : p \in {q \in Parts(t) : q[1] = base}}
    IN  IF type = ex_type THEN {0}
        ELSE IF h.kind = "ptr" /\ e.kind = "ptr" /\ e.flags \subseteq h.flags
          THEN IF h.pointee = "void" THEN {0}
               ELSE IF {h.pointee, e.pointee} \subseteq Classes THEN In(h.pointee, e.pointee) ELSE {}
        ELSE IF {type, ex_type} \subseteq Classes THEN In(type, ex_type) ELSE {}
=============================================================================
