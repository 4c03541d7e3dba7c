------------------------- MODULE MCRoomMembership --------------------------
(***************************************************************************)
(* A room created by u1 for u1 and u2; u3 is added by its owner u1 (join), *)
(* added by the plain member u2 (memberjoin) and checked (check).          *)
(***************************************************************************)
EXTENDS RoomMembership

CONSTANTS u1, u2, u3, create, join, memberjoin, check

Call(c) ==
    CASE c = create            -> [kind |-> "create", actor |-> u1, user |-> u2]
      [] c = join              -> [kind |-> "join",   actor |-> u1, user |-> u3]
      [] c = memberjoin        -> [kind |-> "join",   actor |-> u2, user |-> u3]
      [] c = check             -> [kind |-> "check",  actor |-> u3, user |-> u3]

MCCalls == {create, join, memberjoin, check}
MCOp    == [c \in MCCalls |-> Call(c)]
============================================================================
