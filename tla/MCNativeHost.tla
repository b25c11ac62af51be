---------------------------- MODULE MCNativeHost ----------------------------
(* Model checking of NativeHost: the constants are plain numbers.          *)
EXTENDS NativeHost
=============================================================================
