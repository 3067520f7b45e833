---------------------------- MODULE LogosExample ----------------------------
(***************************************************************************)
(* The program of liblogosdelivery/examples/logosdelivery_example.c. It    *)
(* waits for no callback: it sleeps, and looks once at what the callback   *)
(* for the creation of the node has left, then polls for an event. A sleep *)
(* is no step: the time between any two steps is open.                     *)
(***************************************************************************)
EXTENDS FfiClient

\* The callback keeps the outcome of create_node, and prints the others.
simple_callback(operation) == IF operation = "create_node" THEN <<Store("create_node_ok")>> ELSE <<>>

Make(fn, operation) == Call(fn, simple_callback(operation), FALSE, FALSE)

\* The five requests for node info differ in the id alone.
main_logos ==
  <<Call("logosdelivery_create_node", simple_callback("create_node"), FALSE, TRUE),
    Check("create_node_ok", <<Destroy>>),
    Listen,
    Make("logosdelivery_start_node", "start_node"),
    Make("logosdelivery_subscribe", "subscribe"),
    Make("logosdelivery_get_available_node_info_ids", "get_available_node_info_ids"),
    Make("logosdelivery_get_node_info", "get_node_info"),
    Make("logosdelivery_get_node_info", "get_node_info"),
    Make("logosdelivery_get_node_info", "get_node_info"),
    Make("logosdelivery_get_node_info", "get_node_info"),
    Make("logosdelivery_get_node_info", "get_node_info"),
    Make("logosdelivery_get_available_configs", "get_available_configs"),
    Make("logosdelivery_send", "send"),
    Poll,
    Make("logosdelivery_unsubscribe", "unsubscribe"),
    Make("logosdelivery_stop_node", "stop_node"),
    Destroy>>

logosdelivery_example ==
  [name |-> "logosdelivery_example.c", lib |-> "logosdelivery", main |-> main_logos, menu |-> {},
   onEvent |-> <<Show>>, cify |-> FALSE, globals |-> {"create_node_ok", "got"}]

\* What NodeFirst of FfiClient rests on.
ASSUME ExampleChecksNode == "create_node_ok" \in Cell /\ ChecksNode(logosdelivery_example, "create_node_ok")
=============================================================================
