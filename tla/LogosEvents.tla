----------------------------- MODULE LogosEvents -----------------------------
(***************************************************************************)
(* Events of liblogosdelivery as text, and what event_callback of          *)
(* logosdelivery_example.c reads from it. An event has a type, string      *)
(* fields and, if it reports a received message, that message.             *)
(***************************************************************************)
EXTENDS JsonUtils

CONSTANTS
  StringBuffer,    \* size of the callback's buffers for strings (64 to 256)
  PayloadBuffer    \* size of its buffer for the payload (4096)

\* The buffer for strings has room for a type and the zero after it.
ASSUME BuffersAreGiven == StringBuffer \in Nat /\ StringBuffer > 1 /\ PayloadBuffer \in Nat

\* The fields of an event besides its type, in the order they are written: at most
\* three.
Fields(type) ==
  CASE type \in {"message_sent", "message_propagated"} -> <<"requestId", "messageHash">>
    [] type = "message_error" -> <<"requestId", "messageHash", "error">>
    [] type = "connection_status_change" -> <<"connectionStatus">>
    [] type = "message_received" -> <<"messageHash">>
    [] OTHER -> <<>>

\* What an event is: a type, a text for every field of that type, a topic and the bytes of a payload.
Text == Seq({"char", "mark"} \X STRING)
IsEvent(e) ==
  /\ e.type \in STRING
  /\ \A i \in 1..Len(Fields(e.type)) : Fields(e.type)[i] \in DOMAIN e.fields /\ e.fields[Fields(e.type)[i]] \in Text
  /\ e.contentTopic \in Text /\ e.payload \in Seq(0..255)

StringField(k, v) == <<Key(k), Quote>> \o v \o <<Quote, Comma>>

\* Commas between fields are written after each one here; no reader looks at them.
\* $toFlatJson: the type first, then the fields of the payload, on one level;
\* the payload of a message is an array of its bytes and precedes its topic.
toFlatJson(e) ==
  LET names == Fields(e.type)
      String(i) == IF i <= Len(names) THEN StringField(names[i], e.fields[names[i]]) ELSE <<>>
      array == [ i \in 1..(2 * Len(e.payload) - 1) |->
                   IF i % 2 = 1 THEN Number(e.payload[(i + 1) \div 2]) ELSE Comma ]
      message == <<OpenBrace, Key("payload"), OpenBracket>> \o array \o <<CloseBracket, Comma>>
                   \o StringField("contentTopic", e.contentTopic) \o <<CloseBrace>>
  IN <<OpenBrace>> \o StringField("eventType", <<Char(e.type)>>) \o String(1) \o String(2) \o String(3)
       \o (IF e.type = "message_received" THEN <<Key("message")>> \o message ELSE <<>>) \o <<CloseBrace>>

\* What event_callback prints: the type, the strings it looks for and, for a
\* received message, its topic and payload. Nothing without a type.
event_callback(json) ==
  LET type == extract_json_field(json, "eventType", StringBuffer)
      names == Fields(type[1][2])
      object == extract_json_object(json, "message")
      hasMessage == type[1][2] = "message_received" /\ object # Nothing
  IN IF type = Nothing THEN [type |-> "none"]
     ELSE [ type |-> type[1][2],
            fields |-> [ k \in { names[i] : i \in 1..Len(names) } |-> extract_json_field(json, k, StringBuffer) ],
            contentTopic |-> IF hasMessage THEN extract_json_field(object, "contentTopic", StringBuffer) ELSE Nothing,
            payload |-> IF hasMessage THEN decode_json_byte_array(object, "payload", PayloadBuffer) ELSE Nothing ]

\* The events that end the example's wait.
Ends(type) == type \in {"message_sent", "message_error", "message_received"}

----------------------------------------------------------------------------
(* What ought to be shown of an event: every string and the payload, cut to its buffer. *)
Expected(e) ==
  LET names == Fields(e.type)
      received == e.type = "message_received"
  IN [ type |-> e.type,
       fields |-> [ k \in { names[i] : i \in 1..Len(names) } |-> UpTo(e.fields[k], StringBuffer - 1) ],
       contentTopic |-> IF received THEN UpTo(e.contentTopic, StringBuffer - 1) ELSE Nothing,
       payload |-> IF received THEN UpTo([ i \in 1..Len(e.payload) |-> Number(e.payload[i]) ], PayloadBuffer - 1)
                   ELSE Nothing ]
=============================================================================
