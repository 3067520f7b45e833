------------------------------ MODULE WakuJni ------------------------------
(***************************************************************************)
(* The Android example's JNI functions (examples/mobile/android/app/src/   *)
(* main/jni/waku_ffi.c) whose calls agree with libwaku.h, as a program     *)
(* that an app's user drives. Each passes the address of its own variable  *)
(* `result` to a call it does not wait for, makes a WakuResult of what is  *)
(* there, and returns.                                                     *)
(***************************************************************************)
EXTENDS FfiClient

on_response == <<Store("result")>>

\* to_jni_result and to_jni_ptr read the result, or report "ok" if there is none;
\* free_cb_result then drops it.
JniCall(fn) == <<Local("result"), Call(fn, on_response, FALSE, FALSE), Use("result"), Gone("result")>>

wakuNew == JniCall("waku_new")
wakuStart == JniCall("waku_start")
wakuVersion == JniCall("waku_version")
wakuStop == JniCall("waku_stop")
wakuListenAddresses == JniCall("waku_listen_addresses")

waku_jni ==
  [name |-> "waku_ffi.c", lib |-> "waku", main |-> wakuNew,
   menu |-> {wakuStart, wakuVersion, wakuStop, wakuListenAddresses},
   onEvent |-> <<>>, cify |-> FALSE, globals |-> {}]
=============================================================================
