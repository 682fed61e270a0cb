---------------------------- MODULE MCPodNetwork ----------------------------
(* Small instances of PodNetwork: one or two Pods, of one kind or of both.   *)
EXTENDS PodNetwork, TLC

CONSTANTS a, b

BothHostDevice == a :> "host-device" @@ b :> "host-device"
OneMacvlan == a :> "macvlan"
OneHostDevice == a :> "host-device"
Mixed == a :> "host-device" @@ b :> "macvlan"
=============================================================================
