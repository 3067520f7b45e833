--------------------------- MODULE WakuExampleCpp ---------------------------
(***************************************************************************)
(* The program of examples/cpp/waku.cpp. Its callbacks are closures made   *)
(* by cify, which signals before it calls the closure, and the callback    *)
(* for events is one of them. The closures that only print do nothing.     *)
(***************************************************************************)
EXTENDS FfiClient

cify(fn) == <<Signal>> \o fn
Prints == cify(<<>>)

\* A call that fails is reported, and awaited like the others.
WAKU_CALL_cpp(fn, callback) == Call(fn, callback, TRUE, FALSE)

\* The cases of handle_user_input; the call for the content topic is not awaited.
handle_user_input_cpp ==
  {<<WAKU_CALL_cpp("waku_relay_subscribe", Prints)>>,
   <<WAKU_CALL_cpp("waku_connect", Prints)>>,
   <<Encode,
     Local("contentTopic"),
     Call("waku_content_topic", cify(<<Store("contentTopic")>>), FALSE, FALSE),
     Use("contentTopic"),
     WAKU_CALL_cpp("waku_relay_publish", Prints),
     Gone("contentTopic")>>}

\* Without a context the later calls of main have nothing to call: a strict step.
main_cpp ==
  <<Call("waku_new", Prints, TRUE, TRUE),
    Local("defaultPubsubTopic"),
    WAKU_CALL_cpp("waku_default_pubsub_topic", cify(<<Store("defaultPubsubTopic")>>)),
    Use("defaultPubsubTopic"),
    WAKU_CALL_cpp("waku_version", Prints),
    Local("pubsubTopic"),
    WAKU_CALL_cpp("waku_pubsub_topic", cify(<<Store("pubsubTopic")>>)),
    Use("pubsubTopic"),
    Listen,
    WAKU_CALL_cpp("waku_start", Prints),
    Use("defaultPubsubTopic"),
    WAKU_CALL_cpp("waku_relay_subscribe", Prints)>>

waku_cpp ==
  [name |-> "waku.cpp", lib |-> "waku", main |-> main_cpp, menu |-> handle_user_input_cpp,
   onEvent |-> Prints, cify |-> TRUE, globals |-> {}]
=============================================================================
