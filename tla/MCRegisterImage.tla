-------------------------- MODULE MCRegisterImage --------------------------
(***************************************************************************)
(* A small instance of RegisterImage for TLC.                              *)
(***************************************************************************)
EXTENDS RegisterImage

CONSTANT TextLengths    \* lengths of the texts clients write

Mapping(addr, qty, type, order) == [addr |-> addr, qty |-> qty, type |-> type, order |-> order]

\* A tag of any type, size and byte order, and a neighbour right behind it.
MCTags == {"x", "y"}
MCLayouts ==
    {[t \in MCTags |-> IF t = "x" THEN Mapping(1, qty, type, order)
                                  ELSE Mapping(1 + qty, 2, other, "CDAB")] :
        qty \in 1..5, type \in FixedTypes \union TextTypes, order \in WordOrders,
        other \in {"int32", "string"}}

\* The bytes of the n-th write are numbers of their own, so that a byte in the wrong
\* place makes a wrong value.  The last of two texts ends with a NUL.
Fresh(n, len) == [i \in 1..len |-> 10 * n + i]
Dates(n) == {<<first>> \o Fresh(n, 7) \o <<fraction>> : first \in {0, 255}, fraction \in {0, 9}}
MCValues(type, n) ==
    CASE type = "datetime" -> Dates(n)
      [] type = "bool" -> {<<0>>, <<1>>}
      [] type \in TextTypes -> {Fresh(n, len) : len \in TextLengths} \union {<<10 * n + 1, 0>>}
      [] OTHER -> {Fresh(n, Width[type])}

\* The first byte of a number of milliseconds: 0 for a date after 1970, 255 for one
\* before it, anything else for a number that is no date at all.
MCIsDate(b) == b[1] \in {0, 255}

\* A byte that no text has.
MCIsUtf8(b) == \A i \in DOMAIN b : b[i] # 255
=============================================================================
