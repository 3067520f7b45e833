---------------------------- MODULE WakuExampleC ----------------------------
(***************************************************************************)
(* The program of examples/cbindings/waku_example.c. Every call passes a   *)
(* callback that ends with signal_cond, and main waits for it.             *)
(***************************************************************************)
EXTENDS FfiClient

event_handler == <<ExitOnErr, Signal>>
on_event_received == <<ExitOnErr>>
handle_content_topic == <<Store("contentTopic"), Signal>>
print_default_pubsub_topic == <<Signal>>
print_waku_version == <<Signal>>

\* A call that does not return 0 ends the program; the others are awaited.
WAKU_CALL(fn, callback) == Call(fn, callback, TRUE, TRUE)

publish_message ==
  <<Encode,
    WAKU_CALL("waku_content_topic", handle_content_topic),
    Use("contentTopic"),
    WAKU_CALL("waku_relay_publish", event_handler)>>

\* The cases of handle_user_input: subscribe, connect (commented out), publish.
handle_user_input == {<<WAKU_CALL("waku_relay_subscribe", event_handler)>>, <<>>, publish_message}

\* What waku_new and waku_start return is not looked at.
main ==
  <<Call("waku_new", event_handler, TRUE, FALSE),
    WAKU_CALL("waku_default_pubsub_topic", print_default_pubsub_topic),
    WAKU_CALL("waku_version", print_waku_version),
    Listen,
    Call("waku_start", event_handler, TRUE, FALSE),
    WAKU_CALL("waku_listen_addresses", event_handler),
    WAKU_CALL("waku_relay_subscribe", event_handler),
    WAKU_CALL("waku_discv5_update_bootnodes", event_handler),
    WAKU_CALL("waku_get_peerids_from_peerstore", event_handler)>>

waku_example ==
  [name |-> "waku_example.c", lib |-> "waku", main |-> main, menu |-> handle_user_input,
   onEvent |-> on_event_received, cify |-> FALSE, globals |-> {"contentTopic"}]

\* The discipline that the properties and the proofs of FfiClient rest on.
ASSUME ExampleIsDisciplined == Disciplined(waku_example)
ASSUME ExampleAwaitsNode == AwaitsNode(waku_example)
=============================================================================
