--------------------------- MODULE MCMembership ---------------------------
(* A small instance of MembershipState, with its history, for TLC.         *)
EXTENDS MembershipHistory

CONSTANTS a, b, c, x, y

\* A group of one founder, and the three founding together.
SoloOrTrio == {<<<<a, x>>>>, <<<<a, x>>, <<b, x>>, <<c, x>>>>}

\* Core maps of one, two and three voters: address-only changes, promotions and
\* demotions, and one map that names a voter twice.
CoreMaps ==
    {<<<<b, x>>>>, <<<<a, y>>, <<b, x>>>>, <<<<a, x>>, <<b, y>>>>, <<<<b, x>>, <<c, x>>>>,
     <<<<a, y>>, <<b, x>>, <<c, x>>>>, <<<<a, x>>, <<b, x>>, <<c, x>>>>, <<<<a, y>>, <<a, x>>>>}

Expiry3 == {[pending_expiry |-> 3, min_pledge_bytes |-> 2]}
Default == [pending_expiry |-> 128, min_pledge_bytes |-> 1]
===========================================================================
