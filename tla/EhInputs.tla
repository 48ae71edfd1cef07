------------------------------ MODULE EhInputs ------------------------------
(***************************************************************************)
(* The classes and functions the exceptions part is checked with: a class  *)
(* hierarchy with single, multiple and virtual inheritance, and the tables *)
(* g++ writes for two functions, one for absolute and one for position-    *)
(* independent code.                                                       *)
(***************************************************************************)
EXTENDS Integers, Sequences, TLC

Base(type, off, virt) == [type |-> type, off |-> off, virt |-> virt]
Type(kind, bases)     == [kind |-> kind, bases |-> bases, pointee |-> "none", flags |-> {}]
Ptr(type, flags)      == [kind |-> "ptr", bases |-> <<>>, pointee |-> type, flags |-> flags]

\* D : B, C; B : A; E : virtual A; F : E.
EhInfo ==
    ("A" :> Type("class", <<>>)) @@ ("C" :> Type("class", <<>>))
      @@ ("B" :> Type("si", <<Base("A", 0, FALSE)>>))
      @@ ("D" :> Type("vmi", <<Base("B", 0, FALSE), Base("C", 8, FALSE)>>))
      @@ ("E" :> Type("vmi", <<Base("A", 0, TRUE)>>))
      @@ ("F" :> Type("si", <<Base("E", 0, FALSE)>>))
      @@ ("D*" :> Ptr("D", {})) @@ ("const A*" :> Ptr("A", {"const"}))
      @@ ("void*" :> Ptr("void", {})) @@ ("void" :> Type("void", <<>>))
      @@ ("int" :> Type("fund", <<>>))
EhVbase == [E |-> 8, F |-> 16]

\* Addresses of type_infos and of the words that point to them.
EhTypeAt == (5 :> "A") @@ (300 :> "const A*") @@ (7 :> "void*") @@ (9 :> "C")
EhCtx    == [region |-> 1000, text |-> 0, data |-> 0, word |-> (2 :> 9)]

\* start, size, landing pad, action + 1; the last starts need two bytes.
CallSites1 == <<0, 4, 0, 0>> \o <<4, 4, 40, 1>> \o <<8, 4, 50, 3>> \o <<12, 4, 60, 0>>
                \o <<20, 4, 70, 7>> \o <<24, 4, 80, 9>> \o <<200, 1, 8, 90, 0>>
                \o <<216, 1, 8, 100, 0>>
\* filter, offset of the next record.
Actions1   == <<1, 0>> \o <<2, 1>> \o <<3, 0>> \o <<127, 0>> \o <<4, 1>> \o <<0, 0>>
Types1     == <<7, 0, 0, 0>> \o <<0, 0, 0, 0>> \o <<44, 1, 0, 0>> \o <<5, 0, 0, 0>>
Specs1     == <<1, 0>>
Lsda1 ==
    <<255, 3, 2 + Len(CallSites1 \o Actions1 \o Types1), 1, Len(CallSites1)>>
      \o CallSites1 \o Actions1 \o Types1 \o Specs1

\* Call sites of four bytes; the action records share a tail, so one offset is
\* negative; the type table is relative and indirect.
Four(n)    == <<n, 0, 0, 0>>
CallSites2 == Four(0) \o Four(4) \o Four(20) \o <<3>>
Actions2   == <<2, 0>> \o <<1, 125>>
Types2     == <<0, 0, 0, 0>> \o <<256 - 29, 255, 255, 255>>
Lsda2 ==
    <<27, 243, 1, 0, 0, 155, 2 + Len(CallSites2 \o Actions2 \o Types2), 3, Len(CallSites2)>>
      \o CallSites2 \o Actions2 \o Types2 \o <<0>>

At(lsda, ip) == [lsda |-> lsda, ip |-> 1000 + ip]
EhSites ==
    [nopad |-> At(Lsda1, 2), try_A |-> At(Lsda1, 8), try_two |-> At(Lsda1, 12),
     cleanup |-> At(Lsda1, 13), gap |-> At(Lsda1, 18), spec |-> At(Lsda1, 24),
     mixed |-> At(Lsda1, 25), body |-> At(Lsda1, 204), unexpected |-> At(Lsda1, 220),
     plain |-> At(<<>>, 0), try_C |-> At(Lsda2, 4)]

\* The same sites in the source.
Means(kind, clauses, filters) == [kind |-> kind, clauses |-> clauses, filters |-> filters]
Passes == Means("pass", <<>>, <<>>)
EhMeaning ==
    [nopad |-> Passes, plain |-> Passes, cleanup |-> Passes, body |-> Passes,
     unexpected |-> Passes, gap |-> Means("gap", <<>>, <<>>),
     try_A   |-> Means("catch", <<"A">>, <<1>>),
     try_two |-> Means("catch", <<"const A*", "...">>, <<2, 3>>),
     mixed   |-> Means("catch", <<"void*">>, <<4>>),
     try_C   |-> Means("catch", <<"C", "...">>, <<1, 2>>),
     spec    |-> Means("spec", <<"A">>, <<>>)]
=============================================================================
