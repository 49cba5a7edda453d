-------------------------- MODULE PayloadLifecycle --------------------------
(***************************************************************************)
(* What a payload library may count on from the engine that embeds it: its *)
(* callbacks are called one at a time, initialize first and successfully   *)
(* at most once, invoke only while it is enabled, shutdown at most once,   *)
(* after a successful initialize, and nothing after it.                    *)
(***************************************************************************)

VARIABLE life

Lives == {"absent", "loaded", "initializing", "enabled", "invoking",
          "disabled", "ending", "ended"}

Move(from, to) == life \in from /\ life' = to

Init == life = "absent"

Next ==
    \/ Move({"absent"}, "loaded")
    \/ Move({"loaded"}, "initializing")
    \/ Move({"initializing"}, "loaded")          \* initialize failed
    \/ Move({"initializing"}, "enabled")
    \/ Move({"enabled"}, "invoking")
    \/ Move({"invoking"}, "enabled")
    \/ Move({"enabled"}, "disabled")
    \/ Move({"disabled"}, "enabled")
    \/ Move({"enabled", "disabled"}, "ending")   \* shutdown is called
    \/ Move({"ending", "loaded"}, "ended")       \* never initialized: no call

Spec == Init /\ [][Next]_life
=============================================================================
