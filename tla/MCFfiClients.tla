---------------------------- MODULE MCFfiClients ----------------------------
(* The four client programs, on small buffers and a handful of messages and events. *)
EXTENDS WakuExampleC, WakuExampleCpp, LogosExample, WakuJni

AllPrograms == {waku_example, waku_cpp, logosdelivery_example, waku_jni}
TheCells == {"contentTopic", "defaultPubsubTopic", "pubsubTopic", "create_node_ok", "got", "result"}

\* Messages that leave two bytes and one for the last group, on both sides of 127.
Messages == {<<127, 3>>, <<200, 128, 1, 64>>}

Word(n) == [i \in 1..n |-> Char("x")]
Event(type, fields, topic, bytes) ==
  [type |-> type, fields |-> fields, contentTopic |-> topic, payload |-> bytes]

\* A zero byte at once, or characters of the alphabet and one that is not.
Behind == {<<>>, <<10, 20, 30, 40, 65>>}

\* Strings and payloads below, at and above their buffers; a string with a
\* mark in it; a type the example does not know.
SomeEvents ==
  {Event("message_error",
         [requestId |-> Word(2), messageHash |-> Word(3), error |-> Word(4)], <<>>, <<>>),
   Event("message_received", [messageHash |-> Word(3)], Word(4), <<5, 1, 255, 4>>),
   Event("message_received", [messageHash |-> <<Char("x"), CloseBrace>>], Word(1), <<9>>),
   Event("node_restarted", <<>>, <<>>, <<>>)}
=============================================================================
