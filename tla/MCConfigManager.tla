--------------------------- MODULE MCConfigManager ---------------------------
(***************************************************************************)
(* Three settings, one of them in the environment.                         *)
(***************************************************************************)
EXTENDS ConfigHistory

MCAccepted == [k \in Keys |-> {"a", "b"}]
MCEnv == [k \in {"level"} |-> "a"]

All(v) == [k \in Keys |-> v]
To(k, v) == [key |-> k, value |-> v]

MCRequests ==
    {<<To("port", "b")>>, <<To("port", "a")>>,
     <<To("workers", "b"), To("port", "bad")>>,
     <<To("workers", "b"), To("level", "b")>>}

MCDefaultEdits == {All("a"), [All("a") EXCEPT !["port"] = "b"]}
MCNodeEdits ==
    {[k \in {"workers"} |-> "b"], [k \in {"port"} |-> "bad"]}
=============================================================================
