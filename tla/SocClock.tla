------------------------------ MODULE SocClock ------------------------------
(* What the smaller components share: the clock they all read (time.time(),    *)
(* datetime.now()) and Python's None, which is no number.                      *)
EXTENDS Integers
CONSTANT None
VARIABLE now

ASSUME NoneIsNoNumber == None \notin Int
=============================================================================
