------------------------------- MODULE MCAuth -------------------------------
EXTENDS AuthCenter

MCSubstr == {<<v, v>> : v \in {"a", "b", "g", "s", "n1"}}

MCMaxWrites == [user |-> 4, group |-> 4, strategy |-> 3, resource |-> 3]
=============================================================================
