------------------------------ MODULE Keybinds ------------------------------
(***************************************************************************)
(* keybinds.rs: what becomes of every key press and release. A filter asks *)
(* in a fixed order whether the key belongs to a global shortcut, to a     *)
(* lone modifier, to something consumed before, to a screenshot selection  *)
(* or a window drag, to a session escape chord or to a binding, and else   *)
(* forwards it. Applications register global shortcuts over IPC.           *)
(*                                                                         *)
(* Two groups of modifiers are enough: MOD, which is a key here because a  *)
(* binding can name it alone, and Ctrl+Alt, which the escape chords need.  *)
(***************************************************************************)
EXTENDS Naturals, FiniteSets

CONSTANTS ModKeys,        \* keycodes of the modkey
          Keys,           \* other keycodes
          EscapeKey, ReturnKey, ChordKeys,  \* what some of them produce
          Ids,            \* app, session and shortcut id of a registration
          MaxShortcuts,   \* MAX_GLOBAL_SHORTCUTS, 1024 in the program
          BoundChoices,   \* sets of keys that configurations bind with MOD
          NoKey, NoId, NoTrigger

ASSUME KeybindsAssumption ==
  /\ {EscapeKey, ReturnKey} \cup ChordKeys \subseteq Keys
  /\ BoundChoices \subseteq SUBSET Keys
  /\ ModKeys \cap Keys = {} /\ NoKey \notin ModKeys \cup Keys
  /\ NoId \notin Ids
  /\ MaxShortcuts \in Nat

VARIABLES
  pressed,     \* keyboard.pressed_keys()
  suppressed,  \* suppressed_keys
  pending,     \* pending_modifier
  active,      \* active_global_shortcuts
  mode,        \* a selection or an interaction takes the keyboard
  inhibited,   \* shortcuts_inhibited()
  bound,       \* config.keybinds, the keys bound with MOD
  registered,  \* global_keybinds
  out,         \* what the last handler made happen
  way,         \* history: what became of the last press of a key
  lone         \* history: the modkey pressed since which no other key was put to use,
               \* no button pressed, no drag begun and no focus lost

keys == <<pressed, suppressed, pending, active>>
vars == <<keys, mode, inhibited, bound, registered, out, way, lone>>

All == ModKeys \cup Keys
Triggers == [mods : SUBSET {"MOD", "CTRL+ALT"} \ {{}}, key : Keys]
Reserved == [mods : {{"CTRL+ALT"}}, key : ChordKeys]
Registrations == {i \in Ids : registered[i] # NoTrigger}

TypeOK ==
  /\ pressed \in SUBSET All /\ suppressed \in SUBSET All
  /\ pending \in ModKeys \cup {NoKey}
  /\ active \in [Keys -> Ids \cup {NoId}]
  /\ mode \in {"none", "selecting", "interaction"}
  /\ inhibited \in BOOLEAN /\ bound \in BoundChoices
  /\ registered \in [Ids -> Triggers \cup {NoTrigger}]
  /\ out \in {"none", "forward", "toggle", "escape", "binding", "activated",
              "deactivated", "finished", "flushed"}
  /\ way \in [All -> {"none", "swallow", "consumed", "forward"}]
  /\ lone \in ModKeys \cup {NoKey}
  /\ Cardinality(Registrations) <= MaxShortcuts

Init ==
  /\ pressed = {} /\ suppressed = {} /\ pending = NoKey
  /\ active = [k \in Keys |-> NoId]
  /\ mode = "none" /\ inhibited = FALSE /\ bound \in BoundChoices
  /\ registered = [i \in Ids |-> NoTrigger]
  /\ out = "none" /\ way = [k \in All |-> "none"] /\ lone = NoKey

-----------------------------------------------------------------------------
(* A key goes down                                                         *)

\* find() in the configuration, and then in the registrations.
Binding(k, mods) == mods = {"MOD"} /\ k \in bound
Shortcut(k, mods) == {i \in Ids : registered[i] = [mods |-> mods, key |-> k]}

\* The modifiers held while k is pressed: MOD itself counts, Ctrl+Alt is one of
\* them or not.
Held(k, ctrlAlt) ==
  {m \in {"MOD", "CTRL+ALT"} :
     IF m = "MOD" THEN ModKeys \cap (pressed \cup {k}) # {} ELSE ctrlAlt}

\* Session escape chords ask for Ctrl and Alt, whatever else is held.
Chord(k, mods) == "CTRL+ALT" \in mods /\ k \in ChordKeys
Lone(k, mods) == mods = {"MOD"} /\ k \in ModKeys

Consumed(k, effect) ==
  /\ suppressed' = suppressed \cup {k}
  /\ way' = [way EXCEPT ![k] = "consumed"] /\ out' = effect

\* A key whose last press was not released as far as the filter knows.
PressSwallowed(k) ==
  /\ k \in suppressed
  /\ way' = [way EXCEPT ![k] = "swallow"] /\ out' = "none"
  /\ UNCHANGED <<suppressed, pending, active, mode, lone>>

\* A selection ends with Escape, an interaction with Escape or Return.
PressModal(k) ==
  /\ k \notin suppressed /\ mode # "none"
  /\ LET ends == k = EscapeKey \/ (k = ReturnKey /\ mode = "interaction")
     IN /\ mode' = IF ends THEN "none" ELSE mode
        /\ Consumed(k, IF ends THEN "finished" ELSE "none")
  /\ UNCHANGED <<pending, active, lone>>

PressEscape(k, mods) ==
  /\ Chord(k, mods)
  /\ Consumed(k, "escape")
  /\ pending' = NoKey /\ lone' = NoKey
  /\ UNCHANGED <<active, mode>>

\* The modkey alone completes its binding when it is released.
PressModifier(k, mods) ==
  /\ ~inhibited /\ Lone(k, mods)
  /\ Consumed(k, "none")
  /\ pending' = k /\ lone' = k
  /\ UNCHANGED <<active, mode>>

\* A binding may begin a selection or an interaction.
PressBinding(k, mods) ==
  /\ ~Chord(k, mods) /\ ~inhibited /\ Binding(k, mods)
  /\ Consumed(k, "binding")
  /\ mode' \in {"none", "selecting", "interaction"}
  /\ pending' = NoKey /\ lone' = NoKey
  /\ UNCHANGED active

PressShortcut(k, mods) ==
  /\ ~Chord(k, mods) /\ ~inhibited /\ ~Binding(k, mods)
  /\ \E i \in Shortcut(k, mods) : active' = [active EXCEPT ![k] = i]
  /\ Consumed(k, "activated")
  /\ pending' = NoKey /\ lone' = NoKey
  /\ UNCHANGED mode

\* Everything else goes to the client.
PressForward(k, mods) ==
  /\ ~Chord(k, mods)
  /\ inhibited \/ ~(Lone(k, mods) \/ Binding(k, mods) \/ Shortcut(k, mods) # {})
  /\ way' = [way EXCEPT ![k] = "forward"] /\ out' = "forward"
  /\ pending' = NoKey /\ lone' = NoKey
  /\ UNCHANGED <<suppressed, active, mode>>

Press(k, ctrlAlt) ==
  /\ k \notin pressed /\ pressed' = pressed \cup {k}
  /\ UNCHANGED <<inhibited, bound, registered>>
  /\ \/ PressSwallowed(k)
     \/ PressModal(k)
     \/ /\ k \notin suppressed /\ mode = "none"
        /\ LET mods == Held(k, ctrlAlt)
           IN \/ PressEscape(k, mods) \/ PressModifier(k, mods)
              \/ PressBinding(k, mods) \/ PressShortcut(k, mods)
              \/ PressForward(k, mods)

-----------------------------------------------------------------------------
(* A key comes up                                                          *)

\* The portal is told. The key stays suppressed.
ReleaseShortcut(k) ==
  /\ k \in Keys /\ active[k] # NoId
  /\ active' = [active EXCEPT ![k] = NoId]
  /\ out' = "deactivated"
  /\ UNCHANGED <<suppressed, pending>>

NoShortcut(k) == k \in Keys => active[k] = NoId

\* A lone modkey does what it is bound to, unless its client has inhibited
\* shortcuts in the meantime.
ReleaseModifier(k) ==
  /\ NoShortcut(k) /\ pending = k
  /\ pending' = NoKey /\ suppressed' = suppressed \ {k}
  /\ out' = IF inhibited THEN "none" ELSE "toggle"
  /\ UNCHANGED active

\* A faulty variant of ReleaseConsumed: the key is looked up and not removed.
ReleaseConsumedKeeps(k) ==
  /\ NoShortcut(k) /\ pending # k /\ k \in suppressed
  /\ out' = "none"
  /\ UNCHANGED <<pending, active, suppressed>>

ReleaseConsumed(k) ==
  /\ NoShortcut(k) /\ pending # k /\ k \in suppressed
  /\ suppressed' = suppressed \ {k} /\ out' = "none"
  /\ UNCHANGED <<pending, active>>

\* A selection or an interaction takes the release of any other key as well.
ReleaseOther(k) ==
  /\ NoShortcut(k) /\ pending # k /\ k \notin suppressed
  /\ out' = IF mode = "none" THEN "forward" ELSE "none"
  /\ UNCHANGED <<suppressed, pending, active>>

Release(k) ==
  /\ k \in pressed /\ pressed' = pressed \ {k}
  /\ ReleaseShortcut(k) \/ ReleaseModifier(k) \/ ReleaseConsumed(k) \/ ReleaseOther(k)
  /\ UNCHANGED <<mode, inhibited, bound, registered, way, lone>>

-----------------------------------------------------------------------------
(* What else touches that state                                            *)

\* A selection or a drag begins without a key. Only the drag forgets the lone
\* modkey, as a mouse button does while it is held.
BeginModal(m) ==
  /\ mode = "none" /\ mode' = m
  /\ pending' = (IF m = "interaction" THEN NoKey ELSE pending)
  /\ lone' = (IF m = "interaction" THEN NoKey ELSE lone)
  /\ out' = "none"
  /\ UNCHANGED <<pressed, suppressed, active, inhibited, bound, registered, way>>

\* A faulty variant of EndModal: what was held meanwhile is forgotten.
EndModalForgets ==
  /\ mode # "none" /\ mode' = "none" /\ out' = "none" /\ suppressed' = {}
  /\ UNCHANGED <<pressed, pending, active, inhibited, bound, registered, way, lone>>

EndModal ==
  /\ mode # "none" /\ mode' = "none" /\ out' = "none"
  /\ UNCHANGED <<keys, inhibited, bound, registered, way, lone>>

\* A faulty variant of ButtonPress: the lone modkey is not disarmed.
ButtonPressKeepsPending ==
  /\ mode = "none" /\ pending # NoKey /\ lone' = NoKey /\ out' = "none"
  /\ UNCHANGED <<keys, mode, inhibited, bound, registered, way>>

ButtonPress ==
  /\ mode = "none" /\ pending # NoKey
  /\ pending' = NoKey /\ lone' = NoKey /\ out' = "none"
  /\ UNCHANGED <<pressed, suppressed, active, mode, inhibited, bound, registered, way>>

\* The focus moves between surfaces with and without an inhibitor.
Inhibit ==
  /\ inhibited' = ~inhibited /\ out' = "none"
  /\ UNCHANGED <<keys, mode, bound, registered, way, lone>>

\* The host window loses its focus or the session is paused: every key that is down is
\* released to the client, past the filter and whatever had taken its press. A paused
\* session keeps its selection.
FocusLost ==
  /\ pressed' = {} /\ suppressed' = {} /\ pending' = NoKey /\ lone' = NoKey
  /\ out' = IF pressed = {} THEN "none" ELSE "flushed"
  /\ mode' \in {"none"} \cup ({mode} \cap {"selecting"})
  /\ UNCHANGED <<active, inhibited, bound, registered, way>>

\* A new configuration; the drag is cancelled with the pointer grab.
ReloadConfig(b) ==
  /\ bound' = b /\ mode' = (IF mode = "interaction" THEN "none" ELSE mode) /\ out' = "none"
  /\ UNCHANGED <<keys, inhibited, registered, way, lone>>

-----------------------------------------------------------------------------
(* The registrations                                                       *)

\* conflicts_with() and the checks of register_global() and replace_global().
Free(t, others) ==
  /\ t \notin Reserved
  /\ ~Binding(t.key, t.mods)
  /\ \A i \in others : registered[i] # t

Register(i, t) ==
  /\ registered[i] = NoTrigger /\ Free(t, Ids)
  /\ Cardinality(Registrations) < MaxShortcuts
  /\ registered' = [registered EXCEPT ![i] = t] /\ out' = "none"
  /\ UNCHANGED <<keys, mode, inhibited, bound, way, lone>>

\* A faulty variant of Replace: only the configuration is asked.
ReplaceUnchecked(i, t) ==
  /\ registered[i] # NoTrigger /\ Free(t, {})
  /\ registered' = [registered EXCEPT ![i] = t] /\ out' = "none"
  /\ UNCHANGED <<keys, mode, inhibited, bound, way, lone>>

Replace(i, t) ==
  /\ registered[i] # NoTrigger /\ Free(t, Ids \ {i})
  /\ registered' = [registered EXCEPT ![i] = t] /\ out' = "none"
  /\ UNCHANGED <<keys, mode, inhibited, bound, way, lone>>

Unregister(i) ==
  /\ registered[i] # NoTrigger
  /\ registered' = [registered EXCEPT ![i] = NoTrigger] /\ out' = "none"
  /\ UNCHANGED <<keys, mode, inhibited, bound, way, lone>>

Next ==
  \/ \E k \in All : (\E ctrlAlt \in BOOLEAN : Press(k, ctrlAlt)) \/ Release(k)
  \/ \E m \in {"selecting", "interaction"} : BeginModal(m)
  \/ EndModal \/ ButtonPress \/ Inhibit \/ FocusLost
  \/ \E b \in BoundChoices : ReloadConfig(b)
  \/ \E i \in Ids : Unregister(i) \/ (\E t \in Triggers : Register(i, t) \/ Replace(i, t))

Spec == Init /\ [][Next]_vars

-----------------------------------------------------------------------------
(* What must hold                                                          *)

\* A client that was not given the press of a key is not given its release (keybinds.rs:643),
\* whatever began, ended or was reconfigured in between; except by the loss of focus, which
\* forwards the release of every key that is down (tty.rs:238, render.rs:214).
ConsumedStaysConsumed ==
  [][\A k \in pressed \ pressed' :
       out' \in {"forward", "flushed"} /\ way[k] # "forward" => FocusLost]_vars

\* A key that was taken for a global shortcut stays in suppressed_keys when it is
\* released, and its next press is lost. That one press is all that is lost: never
\* two presses of a key in succession.
OnePressLost ==
  [][\A k \in pressed' \ pressed : way'[k] = "swallow" => way[k] # "swallow"]_vars

\* Releasing the modkey does what it is bound to only if since its press no other key has
\* reached a client, a binding, a shortcut or an escape chord, no button was pressed, no drag
\* begun and no focus lost. A press that a selection takes, or that is lost, does not count.
TapIsAlone == [][\A k \in ModKeys : out' = "toggle" /\ k \in pressed \ pressed' => lone = k]_vars

\* No two registrations answer to the same trigger and none to an escape chord,
\* in any order of registering, replacing and reloading.
TriggersDistinct ==
  /\ TypeOK
  /\ \A i, j \in Registrations :
       registered[i] \notin Reserved /\ (registered[i] = registered[j] => i = j)

=============================================================================
