-------------------------- MODULE MCWechatChannel --------------------------
(* Small instances of WechatChannel: a worker with two slots and another    *)
(* with one.                                                                *)
EXTENDS WechatChannel, TLC
CONSTANTS w1, w2, s1, s2, s3
TwoAndOne == (s1 :> w1) @@ (s2 :> w1) @@ (s3 :> w2)
=============================================================================
