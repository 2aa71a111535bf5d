---------------------------- MODULE MCSchemaWalk ----------------------------
(***************************************************************************)
(* A device for SchemaWalk: a group with a function, its argument and a   *)
(* setting in it, a record with a member, and a value.                     *)
(***************************************************************************)
EXTENDS SchemaWalk

CONSTANTS root, group, fn, arg, setting, rec, field, value

DeviceChildren ==
    root :> <<group, rec, value>> @@ group :> <<fn, setting>> @@ fn :> <<arg>> @@
    rec :> <<field>> @@ arg :> <<>> @@ setting :> <<>> @@ field :> <<>> @@ value :> <<>>

DeviceType ==
    root :> "group" @@ group :> "group" @@ fn :> "function" @@ arg :> "value" @@
    setting :> "value" @@ rec :> "record" @@ field :> "value" @@ value :> "value"

WalkRoot == [k \in {"tcp", "can", "async", "text"} |-> IF k = "text" THEN group ELSE root]

DeviceGets == <<value, field, arg, rec>>
=============================================================================
