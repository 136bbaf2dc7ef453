------------------------------ MODULE MCRooms -------------------------------
(* Instances of the chat room for TLC.                                     *)
EXTENDS Rooms

CONSTANTS a1, a2

\* Mentions of a message, and agents named in a request: none, one, two, and
\* more than the cap, one of them twice.
Nobody == {<<>>}
One == {<<a1>>}
NoneOrBoth == {<<>>, <<a2, a1>>}
NoneOrThrice == {<<>>, <<a1, a2, a1>>}
=============================================================================
