------------------------------- MODULE MCHttp -------------------------------
(***************************************************************************)
(* A small instance of Http: an empty page and one longer than the kernel  *)
(* holds, with ranges on every boundary of the arithmetic.                 *)
(***************************************************************************)
EXTENDS Http

Asking(kind, size) == [Nobody EXCEPT !.kind = kind, !.size = size]
Ranged(first, last) == [Asking("range", 3) EXCEPT !.first = first, !.last = last]

MCRequests ==
    {Asking("page", 0), Asking("page", 3), [Asking("page", 3) EXCEPT !.close = TRUE],
     Asking("fresh", 3), Asking("missing", 0), Asking("bare", 0),
     Ranged(3, Open), Ranged(2, 2),                         \* up to the page's end
     Ranged(0, 1), Ranged(2, 1), Ranged(2, 0), Ranged(4, 5)}
==============================================================================
