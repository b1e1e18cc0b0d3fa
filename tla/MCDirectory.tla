---------------------------- MODULE MCDirectory ----------------------------
(***************************************************************************)
(* Small instances of CdnDirectory, with three places.  p1 is next to c1,  *)
(* near enough for the distance to be NaN, and nearer to c2 than to the    *)
(* FSS; p2 is opposite c1, so that the largest distance is NaN; from p3    *)
(* both CDNs are farther than the FSS.                                     *)
(***************************************************************************)
EXTENDS CdnDirectory, TLC

CONSTANTS c1, c2, p1, p2, p3

\* The distances of the places to c1, c2, the FSS and the default address.
DistanceOf ==
  LET row(a, b, s, n) == [x \in Sites |->
        CASE x = c1 -> a [] x = c2 -> b [] x = Fss -> s [] x = Nowhere -> n] IN
  (p1 :> row(0, 1, 2, 3)) @@ (p2 :> row(3, 1, 2, 0)) @@ (p3 :> row(2, 3, 1, 4))

NearOrOpposite == {<<p1, c1>>, <<p2, c1>>}

=============================================================================
