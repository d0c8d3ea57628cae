------------------------- MODULE MCWorkflowRuntime --------------------------
(* Small instances: a chain with a shortcut, and a chain. *)
EXTENDS WorkflowRuntime, TLC

MCNodes == {"a", "b", "c", "d"}
MCEdges == {<<"a", "b">>, <<"b", "c">>, <<"c", "d">>, <<"a", "d">>}

MCStores == BOOLEAN
MCDurable == {TRUE}

MCChainNodes == {"a", "b", "c"}
MCChainEdges == {<<"a", "b">>, <<"b", "c">>}

=============================================================================
