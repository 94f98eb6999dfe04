------------------------------- MODULE Gamepad -------------------------------
(***************************************************************************)
(* A pad wired to the machine, as reference/modules/gamepad.py reads it: a *)
(* monitor thread finds the pad, decodes its events into the attributes of *)
(* XboxController and starts over when it goes away, while another thread  *)
(* reads the attributes without a lock.  Axes are in percent of their      *)
(* range.  Events of a kind that is not decoded change nothing and are     *)
(* left out.                                                               *)
(***************************************************************************)
EXTENDS Integers, FiniteSets

CONSTANTS
    Axes, Buttons,  \* what the pad has
    Positions,      \* where its axes may be
    DeadzonePct, PaddingPct, \* deadzone and padding
    MaxReconnect    \* max_reconnect; 0: None

ASSUME GamepadAssumption ==
    /\ Positions \subseteq -100..100
    /\ DeadzonePct \in 0..99 /\ PaddingPct \in 0..99
    /\ MaxReconnect \in Nat

VARIABLES
    device,     \* "plugged", "dead" (its node is still listed) or "gone"
    listed,     \* what the list of devices made at import says; {} after the first scan
    values,     \* the attributes: positions of the axes and buttons that are down
    connected, stopped, tries, \* _connected, _stop_event, _reconnect_count
    scanner,    \* what the monitor thread is doing
    presses, unplugs \* bounds: presses and moves, and losses of the pad, that may still come

pad == <<device, listed, values, connected, stopped, tries, scanner, presses, unplugs>>

Released == [axes |-> [a \in Axes |-> 0], down |-> {}]
-----------------------------------------------------------------------------
(* What read() returns. *)

Condition(x) ==
    LET size == IF x < 0 THEN -x ELSE x
        scaled == ((size - DeadzonePct) * 100) \div (100 - DeadzonePct)
        padded == (scaled * 100) \div (100 - PaddingPct)
        limited == IF padded > 100 THEN 100 ELSE padded
    IN IF size < DeadzonePct THEN 0 ELSE IF x > 0 THEN limited ELSE -limited

\* The attributes are reset by the reader too when the pad is away.
Current == IF connected THEN values ELSE Released
Read == [axes |-> [a \in Axes |-> Condition(Current.axes[a])], down |-> Current.down]
ResetWhenAway == values' = Current
-----------------------------------------------------------------------------
(* _monitor_controller. *)

Tried == tries' = IF MaxReconnect = 0 THEN 0 ELSE tries + 1

\* The first pass trusts the list made at import, the others scan again; a node that has
\* not been torn down yet is found all the same.
Found == IF listed # {} THEN TRUE \in listed ELSE device # "gone"
Scan ==
    /\ scanner = "scanning" /\ ~stopped
    /\ listed' = {}
    /\ \/ /\ Found
          /\ connected' = TRUE /\ tries' = 0 /\ scanner' = "reading"
       \/ /\ ~Found
          /\ Tried /\ UNCHANGED connected
          /\ scanner' = IF MaxReconnect > 0 /\ tries' >= MaxReconnect THEN "ending" ELSE "waiting"
    /\ UNCHANGED <<device, values, stopped, presses, unplugs>>
\* A retry after three seconds, or half a second after a loss.
Retry ==
    /\ scanner = "waiting" /\ ~stopped
    /\ scanner' = "scanning"
    /\ UNCHANGED <<device, values, connected, stopped, listed, tries, presses, unplugs>>

\* get_gamepad returns what the operator did; a thread parked in it decodes one more event
\* after stop_monitoring.
Events ==
    /\ scanner = "reading" /\ device = "plugged"
    /\ \/ /\ presses > 0 /\ presses' = presses - 1
          /\ \/ \E a \in Axes, x \in Positions : values' = [values EXCEPT !.axes[a] = x]
             \/ \E b \in Buttons : values' = [values EXCEPT !.down = @ \cup {b}]
       \/ /\ \E b \in Buttons : values' = [values EXCEPT !.down = @ \ {b}]
          /\ UNCHANGED presses
    /\ values' # values
    /\ scanner' = IF stopped THEN "ending" ELSE "reading"
    /\ UNCHANGED <<device, listed, connected, stopped, tries, unplugs>>
\* The read fails: the pad is gone.
Lost ==
    /\ scanner = "reading" /\ device # "plugged"
    /\ connected' = FALSE
    /\ values' = Released
    /\ scanner' = "waiting"
    /\ UNCHANGED <<device, stopped, listed, tries, presses, unplugs>>
\* The user may not read the node, which is opened by the first read.
Forbidden ==
    /\ scanner = "reading" /\ device = "plugged" /\ values = Released /\ unplugs > 0
    /\ stopped' = TRUE
    /\ scanner' = "ending" /\ unplugs' = unplugs - 1
    /\ UNCHANGED <<device, listed, values, connected, tries, presses>>
End ==
    /\ (scanner \in {"scanning", "waiting"} /\ stopped) \/ scanner = "ending"
    /\ scanner' = "ended"
    /\ connected' = FALSE
    /\ values' = Released
    /\ UNCHANGED <<device, stopped, listed, tries, presses, unplugs>>

\* stop_monitoring, which does not wait for a thread parked in a read.
StopMonitoring ==
    /\ stopped' = TRUE
    /\ connected' = FALSE
    /\ values' = Released
    /\ UNCHANGED <<device, listed, tries, scanner, presses, unplugs>>
-----------------------------------------------------------------------------
(* The pad itself: it is unplugged with sticks and buttons held or not, and comes back. *)

Unplug ==
    /\ device = "plugged" /\ unplugs > 0
    /\ device' = "dead" /\ unplugs' = unplugs - 1
    /\ UNCHANGED <<values, connected, stopped, listed, tries, scanner, presses>>
TornDown ==
    /\ device = "dead" /\ scanner # "reading" /\ device' = "gone"
    /\ UNCHANGED <<values, connected, stopped, listed, tries, scanner, presses, unplugs>>
Plug ==
    /\ device = "gone" /\ device' = "plugged"
    /\ UNCHANGED <<values, connected, stopped, listed, tries, scanner, presses, unplugs>>

GamepadInit ==
    /\ device \in {"plugged", "gone"} /\ listed = {device = "plugged"}
    /\ values = Released
    /\ connected = FALSE /\ stopped = FALSE /\ tries = 0
    /\ scanner = "scanning"
GamepadNext ==
    Scan \/ Retry \/ Events \/ Lost \/ Forbidden \/ End \/ Unplug \/ TornDown \/ Plug
=============================================================================
