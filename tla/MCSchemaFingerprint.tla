------------------------ MODULE MCSchemaFingerprint --------------------------
(* Catalogs that differ where an encoding may not tell.  The last has a group *)
(* with one row too many, the one before it a field that is too long.         *)
EXTENDS SchemaFingerprint

Empty == [k \in Kinds |-> {}]

ab == <<1>>
abb == <<1, 1>>

SomeCatalogs ==
    {[Empty EXCEPT !["table"] = {<<ab, abb>>}, !["column"] = {<<ab, Null>>}],
     [Empty EXCEPT !["table"] = {<<abb, ab>>}, !["column"] = {<<ab, <<>>>>}],
     [Empty EXCEPT !["table"] = {<<ab, ab>>, <<ab, abb>>}, !["check"] = {<<ab, ab>>}],
     [Empty EXCEPT !["table"] = {<<ab, ab>>, <<ab, abb>>}, !["constraint"] = {<<ab, ab>>}],
     [Empty EXCEPT !["index"] = {<<<<1, 1, 1, 1>>>>}],
     [Empty EXCEPT !["referential"] = {<<ab, ab>>, <<ab, abb>>, <<abb, ab>>}]}
=============================================================================
