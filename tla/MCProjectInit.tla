--------------------------- MODULE MCProjectInit ---------------------------
(***************************************************************************)
(* Every first content of the two paths that init can meet.                *)
(***************************************************************************)
EXTENDS ProjectInit

Start(parent, target, entries) == [parent |-> parent, target |-> target, entries |-> entries]

MCStarts ==
    {Start(Nothing, Nothing, FALSE), Start(Other, Nothing, FALSE), Start(User, Nothing, FALSE),
     Start(User, Other, FALSE), Start(User, User, FALSE), Start(User, User, TRUE)}
=============================================================================
