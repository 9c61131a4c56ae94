------------------------------ MODULE MCAuthd ------------------------------
(* Two terminals of an auto rule beside one that logs in on a web page, and one *)
(* that logs in with wechat.                                                    *)
EXTENDS Authd, TLC

CONSTANTS a, b, w, x

AutoWeb == a :> "auto" @@ b :> "auto" @@ w :> "web"
AutoSymmetry == Permutations({a, b})
WebOnly == w :> "web"
WechatOnly == x :> "wechat"
=============================================================================
