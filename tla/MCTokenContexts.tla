-------------------------- MODULE MCTokenContexts --------------------------
(* A small instance of TokenContexts for TLC.                              *)
EXTENDS TokenContexts, TLC

CONSTANTS c1, c2, c3, c4, c5, lib, dotlib, link, other, so, otherso, t1, t2, t3

\* Four Contexts share a library, the first two a token, the other two another
\* one; the second gives the library's path in another spelling, and the
\* fourth gives a link to the library.  The fifth has a library of its own.
Spelled == lib :> lib @@ dotlib :> lib @@ link :> link @@ other :> other
FileAt == lib :> so @@ dotlib :> so @@ link :> so @@ other :> otherso
PathOf == c1 :> lib @@ c2 :> dotlib @@ c3 :> lib @@ c4 :> link @@ c5 :> other
TokenOf == c1 :> t1 @@ c2 :> t1 @@ c3 :> t2 @@ c4 :> t2 @@ c5 :> t3
=============================================================================
