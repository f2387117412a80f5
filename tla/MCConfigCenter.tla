--------------------------- MODULE MCConfigCenter ---------------------------
EXTENDS ConfigCenter

MCTagLists == {<< <<"t", "v">> >>}
MCSubstr == {<<v, v>> : v \in {"g", "a", "b", "c", "n"}}
MCButLast == ("g" :> "") @@ ("" :> "")
MCPrefix == {}
=============================================================================
