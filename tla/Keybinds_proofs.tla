----------------------------- MODULE Keybinds_proofs -----------------------------
(***************************************************************************)
(* What the key filter takes stays taken, a lone modkey is alone, a stuck  *)
(* key loses one press, and triggers are distinct: for any keys, chords,   *)
(* registrations and configurations.                                       *)
(***************************************************************************)
EXTENDS Keybinds, FiniteSetTheorems, TLAPS

-----------------------------------------------------------------------------
(* The inductive invariant                                                 *)

\* The filter's own state. A key that is down and was not taken was forwarded. A key that
\* is up and still taken is one of a shortcut that was released; it is not the key of
\* another that is active, and its last press was not lost. The pending modkey is the lone
\* one.
FilterTypes ==
  /\ pressed \in SUBSET All /\ suppressed \in SUBSET All
  /\ pending \in ModKeys \cup {NoKey} /\ lone \in ModKeys \cup {NoKey}
  /\ active \in [Keys -> Ids \cup {NoId}]
  /\ way \in [All -> {"none", "swallow", "consumed", "forward"}]
Forwarded == \A k \in pressed : k \notin suppressed => way[k] = "forward"
Stuck == \A k \in suppressed \ pressed : NoShortcut(k) /\ way[k] # "swallow"
Firing == \A k \in Keys \cap suppressed : active[k] # NoId => way[k] # "swallow"
Alone == pending # NoKey => lone = pending
Filter == FilterTypes /\ Forwarded /\ Stuck /\ Firing /\ Alone

\* The rest of the state: what else takes the keyboard, and the registrations.
OtherTypes ==
  /\ mode \in {"none", "selecting", "interaction"}
  /\ inhibited \in BOOLEAN /\ bound \in BoundChoices
  /\ out \in {"none", "forward", "toggle", "escape", "binding", "activated",
              "deactivated", "finished", "flushed"}
Distinct ==
  /\ registered \in [Ids -> Triggers \cup {NoTrigger}]
  /\ IsFiniteSet(Registrations) /\ Cardinality(Registrations) <= MaxShortcuts
  /\ \A i, j \in Registrations :
       registered[i] \notin Reserved /\ (registered[i] = registered[j] => i = j)

Inv == Filter /\ OtherTypes /\ Distinct

\* Nothing is held and nothing registered at first.
LEMMA InitInv == Init => Inv
<1> SUFFICES ASSUME Init PROVE Inv
  OBVIOUS
<1>1. FilterTypes
  BY DEF Init, FilterTypes
<1>2. Forwarded /\ Stuck /\ Firing /\ Alone
  BY DEF Init, Forwarded, Stuck, Firing, Alone
<1>3. OtherTypes
  BY Zenon DEF Init, OtherTypes
<1>4. Distinct
  <2>1. Registrations = {}
    BY DEF Init, Registrations
  <2>2. IsFiniteSet({}) /\ Cardinality({}) = 0
    BY FS_EmptySet
  <2>3. registered \in [Ids -> Triggers \cup {NoTrigger}]
    BY DEF Init
  <2> QED BY <2>1, <2>2, <2>3, KeybindsAssumption DEF Distinct
<1> QED BY <1>1, <1>2, <1>3, <1>4 DEF Inv, Filter

-----------------------------------------------------------------------------
(* Presses                                                                 *)

\* A press that is lost was of a stuck key, which is stuck no longer.
LEMMA SwallowedKeeps ==
  ASSUME Filter, NEW k \in All, k \notin pressed, pressed' = pressed \cup {k},
         PressSwallowed(k)
  PROVE  Filter'
<1> USE DEF Filter, PressSwallowed
<1>1. FilterTypes'
  BY DEF FilterTypes
<1>2. Forwarded'
  BY DEF FilterTypes, Forwarded
<1>3. Stuck'
  BY DEF FilterTypes, Stuck, NoShortcut
<1>4. Firing'
  BY DEF FilterTypes, Firing, Stuck, NoShortcut
<1>5. Alone'
  BY DEF Alone
<1> QED BY <1>1, <1>2, <1>3, <1>4, <1>5

\* A press that is consumed, for a modkey alone, a shortcut or anything else.
LEMMA ConsumedKeeps ==
  ASSUME Filter, NEW k \in All, k \notin pressed, pressed' = pressed \cup {k},
         NEW effect, Consumed(k, effect),
         \/ UNCHANGED active
         \/ k \in Keys /\ \E i \in Ids : active' = [active EXCEPT ![k] = i],
         \/ UNCHANGED <<pending, lone>>
         \/ pending' = NoKey /\ lone' = NoKey
         \/ k \in ModKeys /\ pending' = k /\ lone' = k
  PROVE  Filter'
<1> USE DEF Filter, Consumed
<1>1. active' \in [Keys -> Ids \cup {NoId}]
      /\ \A l \in Keys \ {k} : active'[l] = active[l]
  BY DEF FilterTypes
<1>2. FilterTypes'
  BY <1>1 DEF FilterTypes
<1>3. Forwarded'
  BY DEF FilterTypes, Forwarded
<1>4. Stuck'
  BY <1>1 DEF FilterTypes, Stuck, NoShortcut
<1>5. Firing'
  BY <1>1 DEF FilterTypes, Firing
<1>6. Alone'
  BY DEF Alone
<1> QED BY <1>2, <1>3, <1>4, <1>5, <1>6

\* A press that reaches a client.
LEMMA ForwardKeeps ==
  ASSUME Filter, NEW k \in All, k \notin pressed, pressed' = pressed \cup {k},
         k \notin suppressed, NEW mods, PressForward(k, mods)
  PROVE  Filter'
<1> USE DEF Filter, PressForward
<1>1. FilterTypes'
  BY DEF FilterTypes
<1>2. Forwarded'
  BY DEF FilterTypes, Forwarded
<1>3. Stuck'
  BY DEF FilterTypes, Stuck, NoShortcut
<1>4. Firing'
  BY DEF FilterTypes, Firing
<1>5. Alone'
  BY DEF Alone
<1> QED BY <1>1, <1>2, <1>3, <1>4, <1>5

\* Any press, whatever the filter makes of it.
LEMMA PressKeeps ==
  ASSUME Filter, NEW k \in All, NEW ctrlAlt, Press(k, ctrlAlt)
  PROVE  Filter'
<1> DEFINE mods == Held(k, ctrlAlt)
<1>1. k \notin pressed /\ pressed' = pressed \cup {k}
  BY DEF Press
<1>2. CASE PressSwallowed(k)
  BY <1>1, <1>2, SwallowedKeeps
<1>3. CASE PressModal(k)
  BY <1>1, <1>3, ConsumedKeeps, Zenon DEF PressModal
<1>4. CASE PressEscape(k, mods)
  BY <1>1, <1>4, ConsumedKeeps, Zenon DEF PressEscape
<1>5. CASE PressModifier(k, mods)
  BY <1>1, <1>5, ConsumedKeeps, Zenon DEF PressModifier, Lone
<1>6. CASE PressBinding(k, mods)
  BY <1>1, <1>6, ConsumedKeeps, Zenon DEF PressBinding
<1>7. CASE PressShortcut(k, mods)
  <2>1. PICK i \in Shortcut(k, mods) : active' = [active EXCEPT ![k] = i]
    BY <1>7 DEF PressShortcut
  <2>2. i \in Ids
    BY DEF Shortcut
  <2>3. Consumed(k, "activated") /\ pending' = NoKey /\ lone' = NoKey
    BY <1>7 DEF PressShortcut
  <2>4. CASE k \in Keys
    BY <1>1, <2>1, <2>2, <2>3, <2>4, ConsumedKeeps, Zenon
  <2>5. CASE k \notin Keys
    <3>1. active' = active
      BY <2>1, <2>5 DEF Filter, FilterTypes
    <3> QED BY <1>1, <2>3, <3>1, ConsumedKeeps, Zenon
  <2> QED BY <2>4, <2>5
<1>8. CASE k \notin suppressed /\ PressForward(k, mods)
  BY <1>1, <1>8, ForwardKeeps
<1> QED BY <1>2, <1>3, <1>4, <1>5, <1>6, <1>7, <1>8, Zenon DEF Press

-----------------------------------------------------------------------------
(* Releases                                                                *)

\* Any release, in the order of the filter. That of a shortcut leaves its key stuck.
LEMMA ReleaseKeeps ==
  ASSUME Filter, NEW k \in All, Release(k)
  PROVE  Filter'
<1> USE DEF Filter
<1>1. /\ k \in pressed /\ pressed' = pressed \ {k}
      /\ UNCHANGED <<way, lone>>
  BY DEF Release
<1>2. CASE ReleaseShortcut(k)
  <2>1. FilterTypes'
    BY <1>1, <1>2 DEF ReleaseShortcut, FilterTypes
  <2>2. Forwarded'
    BY <1>1, <1>2 DEF ReleaseShortcut, Forwarded
  <2>3. Stuck'
    BY <1>1, <1>2 DEF ReleaseShortcut, FilterTypes, Stuck, Firing, NoShortcut
  <2>4. Firing'
    BY <1>1, <1>2 DEF ReleaseShortcut, FilterTypes, Firing
  <2>5. Alone'
    BY <1>1, <1>2 DEF ReleaseShortcut, Alone
  <2> QED BY <2>1, <2>2, <2>3, <2>4, <2>5
<1>3. CASE ReleaseModifier(k) \/ ReleaseConsumed(k)
  <2>1. /\ suppressed' = suppressed \ {k} /\ UNCHANGED active
        /\ pending' = NoKey \/ UNCHANGED pending
    BY <1>3 DEF ReleaseModifier, ReleaseConsumed
  <2>2. FilterTypes'
    BY <1>1, <2>1 DEF FilterTypes
  <2>3. Forwarded'
    BY <1>1, <2>1 DEF Forwarded
  <2>4. Stuck'
    BY <1>1, <2>1 DEF Stuck, NoShortcut
  <2>5. Firing'
    BY <1>1, <2>1 DEF Firing
  <2>6. Alone'
    BY <1>1, <2>1 DEF Alone
  <2> QED BY <2>2, <2>3, <2>4, <2>5, <2>6
<1>4. CASE ReleaseOther(k)
  <2>1. k \notin suppressed /\ UNCHANGED <<suppressed, active, pending>>
    BY <1>4 DEF ReleaseOther
  <2>2. FilterTypes'
    BY <1>1, <2>1 DEF FilterTypes
  <2>3. Forwarded'
    BY <1>1, <2>1 DEF Forwarded
  <2>4. Stuck'
    BY <1>1, <2>1 DEF Stuck, NoShortcut
  <2>5. Firing'
    BY <1>1, <2>1 DEF Firing
  <2>6. Alone'
    BY <1>1, <2>1 DEF Alone
  <2> QED BY <2>2, <2>3, <2>4, <2>5, <2>6
<1> QED BY <1>2, <1>3, <1>4, Zenon DEF Release

-----------------------------------------------------------------------------
(* Everything else                                                         *)

\* Where the filter's state stays, but for the pending modkey.
LEMMA QuietKeeps ==
  ASSUME Filter, UNCHANGED <<pressed, suppressed, active, way>>,
         \/ pending' = NoKey /\ (lone' = NoKey \/ UNCHANGED lone)
         \/ UNCHANGED <<pending, lone>>
  PROVE  Filter'
<1>1. FilterTypes'
  BY DEF Filter, FilterTypes
<1>2. Forwarded' /\ Stuck' /\ Firing'
  BY DEF Filter, Forwarded, Stuck, Firing, NoShortcut
<1>3. Alone'
  BY DEF Filter, Alone
<1> QED BY <1>1, <1>2, <1>3 DEF Filter

\* Losing the focus releases every key, and forgets all but the active shortcuts.
LEMMA FocusLostKeeps ==
  ASSUME Filter, FocusLost PROVE Filter'
<1>1. FilterTypes'
  BY DEF Filter, FilterTypes, FocusLost
<1>2. Forwarded' /\ Stuck' /\ Firing' /\ Alone'
  BY DEF FocusLost, Forwarded, Stuck, Firing, Alone
<1> QED BY <1>1, <1>2 DEF Filter

\* Every step keeps the filter's part of the invariant.
LEMMA FilterStep == ASSUME Filter, [Next]_vars PROVE Filter'
<1>1. ASSUME NEW k \in All, NEW ctrlAlt \in BOOLEAN, Press(k, ctrlAlt) PROVE Filter'
  BY <1>1, PressKeeps
<1>2. ASSUME NEW k \in All, Release(k) PROVE Filter'
  BY <1>2, ReleaseKeeps
<1>3. ASSUME NEW m, BeginModal(m) PROVE Filter'
  BY <1>3, QuietKeeps, Zenon DEF BeginModal
<1>4. CASE EndModal \/ Inhibit
  BY <1>4, QuietKeeps, Zenon DEF EndModal, Inhibit, keys
<1>5. CASE ButtonPress
  BY <1>5, QuietKeeps, Zenon DEF ButtonPress
<1>6. CASE FocusLost
  BY <1>6, FocusLostKeeps
<1>7. ASSUME NEW b, ReloadConfig(b) PROVE Filter'
  BY <1>7, QuietKeeps, Zenon DEF ReloadConfig, keys
<1>8. ASSUME NEW i, Unregister(i) PROVE Filter'
  BY <1>8, QuietKeeps, Zenon DEF Unregister, keys
<1>9. ASSUME NEW i, NEW t, Register(i, t) \/ Replace(i, t) PROVE Filter'
  BY <1>9, QuietKeeps, Zenon DEF Register, Replace, keys
<1>10. CASE UNCHANGED vars
  BY <1>10, QuietKeeps, Zenon DEF vars, keys
<1> QED BY <1>1, <1>2, <1>3, <1>4, <1>5, <1>6, <1>7, <1>8, <1>9, <1>10, Zenon DEF Next

\* The modes and outcomes of the filter are of their types.
LEMMA OtherTypesStep == ASSUME OtherTypes, [Next]_vars PROVE OtherTypes'
<1>1. ASSUME NEW k \in All, NEW ctrlAlt \in BOOLEAN, Press(k, ctrlAlt) PROVE OtherTypes'
  <2>1. UNCHANGED <<inhibited, bound>>
    BY <1>1 DEF Press
  <2>2. /\ mode' \in {"none", "selecting", "interaction"}
        /\ out' \in {"none", "forward", "toggle", "escape", "binding", "activated",
                     "deactivated", "finished", "flushed"}
    <3>1. CASE PressSwallowed(k)
      BY <3>1 DEF PressSwallowed, OtherTypes
    <3>2. CASE PressModal(k)
      BY <3>2 DEF PressModal, Consumed, OtherTypes
    <3>3. ASSUME NEW mods,
                 \/ PressEscape(k, mods) \/ PressModifier(k, mods)
                 \/ PressBinding(k, mods) \/ PressShortcut(k, mods)
                 \/ PressForward(k, mods)
          PROVE  /\ mode' \in {"none", "selecting", "interaction"}
                 /\ out' \in {"none", "forward", "escape", "binding", "activated"}
      BY <3>3 DEF PressEscape, PressModifier, PressBinding, PressShortcut, PressForward,
                  Consumed, OtherTypes
    <3>4. CASE \/ PressEscape(k, Held(k, ctrlAlt)) \/ PressModifier(k, Held(k, ctrlAlt))
               \/ PressBinding(k, Held(k, ctrlAlt)) \/ PressShortcut(k, Held(k, ctrlAlt))
               \/ PressForward(k, Held(k, ctrlAlt))
      <4>1. /\ mode' \in {"none", "selecting", "interaction"}
            /\ out' \in {"none", "forward", "escape", "binding", "activated"}
        BY <3>3, <3>4, Zenon
      <4> QED BY <4>1
    <3> QED BY <1>1, <3>1, <3>2, <3>4, Zenon DEF Press
  <2> QED BY <2>1, <2>2, Zenon DEF OtherTypes
<1>2. ASSUME NEW k \in All, Release(k) PROVE OtherTypes'
  <2>1. UNCHANGED <<mode, inhibited, bound>>
    BY <1>2 DEF Release
  <2>2. out' \in {"none", "forward", "toggle", "deactivated"}
    BY <1>2 DEF Release, ReleaseShortcut, ReleaseModifier, ReleaseConsumed, ReleaseOther
  <2> QED BY <2>1, <2>2, Zenon DEF OtherTypes
<1>3. ASSUME NEW m \in {"selecting", "interaction"}, BeginModal(m) PROVE OtherTypes'
  BY <1>3, Zenon DEF BeginModal, OtherTypes
<1>4. CASE EndModal
  BY <1>4, Zenon DEF EndModal, OtherTypes
<1>5. CASE ButtonPress
  BY <1>5, Zenon DEF ButtonPress, OtherTypes
<1>6. CASE Inhibit
  BY <1>6, Zenon DEF Inhibit, OtherTypes
<1>7. CASE FocusLost
  <2>1. mode' \in {"none", "selecting", "interaction"}
    BY <1>7 DEF FocusLost, OtherTypes
  <2> QED BY <1>7, <2>1, Zenon DEF FocusLost, OtherTypes
<1>8. ASSUME NEW b \in BoundChoices, ReloadConfig(b) PROVE OtherTypes'
  BY <1>8, Zenon DEF ReloadConfig, OtherTypes
<1>9. ASSUME NEW i, Unregister(i) PROVE OtherTypes'
  BY <1>9, Zenon DEF Unregister, OtherTypes
<1>10. ASSUME NEW i, NEW t, Register(i, t) \/ Replace(i, t) PROVE OtherTypes'
  BY <1>10, Zenon DEF Register, Replace, OtherTypes
<1>11. CASE UNCHANGED vars
  BY <1>11, Zenon DEF vars, OtherTypes
<1> QED BY <1>1, <1>2, <1>3, <1>4, <1>5, <1>6, <1>7, <1>8, <1>9, <1>10, <1>11, Zenon DEF Next

-----------------------------------------------------------------------------
(* The registrations                                                       *)

\* A registration that gets a trigger that is free stays distinct from the others.
LEMMA FreeKeepsDistinct ==
  ASSUME Distinct, NEW i \in Ids, NEW t \in Triggers, Free(t, Ids \ {i}),
         registered' = [registered EXCEPT ![i] = t],
         registered[i] # NoTrigger \/ Cardinality(Registrations) < MaxShortcuts
  PROVE  Distinct'
<1> DEFINE R == Registrations
<1>1. /\ registered \in [Ids -> Triggers \cup {NoTrigger}]
      /\ IsFiniteSet(R) /\ Cardinality(R) <= MaxShortcuts
      /\ \A j, k \in R : registered[j] \notin Reserved /\ (registered[j] = registered[k] => j = k)
  BY DEF Distinct
<1>2. /\ registered' \in [Ids -> Triggers \cup {NoTrigger}]
      /\ registered'[i] = t /\ \A j \in Ids \ {i} : registered'[j] = registered[j]
  BY <1>1
<1>3. t \notin Reserved /\ \A j \in Ids \ {i} : registered[j] # t
  BY DEF Free
<1>4. Registrations' = IF t = NoTrigger THEN R \ {i} ELSE R \cup {i}
  BY <1>2 DEF Registrations
<1>5. IsFiniteSet(Registrations') /\ Cardinality(Registrations') <= MaxShortcuts
  <2>1. /\ IsFiniteSet(R \cup {i}) /\ IsFiniteSet(R \ {i})
        /\ Cardinality(R) \in Nat
        /\ Cardinality(R \cup {i}) = IF i \in R THEN Cardinality(R) ELSE Cardinality(R) + 1
        /\ Cardinality(R \ {i}) = IF i \in R THEN Cardinality(R) - 1 ELSE Cardinality(R)
    BY <1>1, FS_AddElement, FS_RemoveElement, FS_CardinalityType
  <2>2. i \in R <=> registered[i] # NoTrigger
    BY DEF Registrations
  <2> QED BY <1>1, <1>4, <2>1, <2>2, KeybindsAssumption
<1>6. \A j, k \in Registrations' :
        registered'[j] \notin Reserved /\ (registered'[j] = registered'[k] => j = k)
  <2> SUFFICES ASSUME NEW j \in Registrations', NEW k \in Registrations'
               PROVE  registered'[j] \notin Reserved /\ (registered'[j] = registered'[k] => j = k)
    OBVIOUS
  <2>1. /\ j \in Ids /\ (j # i => j \in R)
        /\ k \in Ids /\ (k # i => k \in R)
    BY <1>2 DEF Registrations
  <2> QED BY <1>1, <1>2, <1>3, <2>1
<1> QED BY <1>2, <1>5, <1>6, Zenon DEF Distinct

\* Every step keeps the triggers distinct, and their number limited.
LEMMA DistinctStep == ASSUME Distinct, [Next]_vars PROVE Distinct'
<1>1. CASE UNCHANGED registered
  BY <1>1 DEF Distinct, Registrations
<1>2. ASSUME NEW i \in Ids, Unregister(i) PROVE Distinct'
  <2>1. registered \in [Ids -> Triggers \cup {NoTrigger}]
        /\ registered' = [registered EXCEPT ![i] = NoTrigger]
    BY <1>2, Zenon DEF Distinct, Unregister
  <2>2. /\ registered' \in [Ids -> Triggers \cup {NoTrigger}]
        /\ registered'[i] = NoTrigger
        /\ \A j \in Ids \ {i} : registered'[j] = registered[j]
    BY <2>1
  <2>3. Registrations' = Registrations \ {i}
    BY <2>2 DEF Registrations
  <2>4. IsFiniteSet(Registrations') /\ Cardinality(Registrations') <= MaxShortcuts
    <3>1. IsFiniteSet(Registrations) /\ Cardinality(Registrations) <= MaxShortcuts
      BY DEF Distinct
    <3>2. /\ IsFiniteSet(Registrations \ {i}) /\ Cardinality(Registrations) \in Nat
          /\ Cardinality(Registrations \ {i}) \in Nat
          /\ Cardinality(Registrations \ {i}) <= Cardinality(Registrations)
      BY <3>1, FS_Subset, FS_CardinalityType
    <3> QED BY <2>3, <3>1, <3>2, KeybindsAssumption
  <2>5. \A j, k \in Registrations' :
          registered'[j] \notin Reserved /\ (registered'[j] = registered'[k] => j = k)
    BY <2>2, <2>3 DEF Distinct, Registrations
  <2> QED BY <2>2, <2>4, <2>5, Zenon DEF Distinct
<1>3. ASSUME NEW i \in Ids, NEW t \in Triggers, Register(i, t) PROVE Distinct'
  <2>1. Free(t, Ids \ {i})
    BY <1>3 DEF Register, Free
  <2> QED BY <1>3, <2>1, FreeKeepsDistinct DEF Register
<1>4. ASSUME NEW i \in Ids, NEW t \in Triggers, Replace(i, t) PROVE Distinct'
  BY <1>4, FreeKeepsDistinct DEF Replace
<1>5. ASSUME NEW k, NEW ctrlAlt, Press(k, ctrlAlt) PROVE UNCHANGED registered
  BY <1>5 DEF Press
<1>6. ASSUME NEW k, Release(k) PROVE UNCHANGED registered
  BY <1>6 DEF Release
<1>7. ASSUME NEW m, BeginModal(m) PROVE UNCHANGED registered
  BY <1>7 DEF BeginModal
<1>8. ASSUME NEW b, ReloadConfig(b) PROVE UNCHANGED registered
  BY <1>8 DEF ReloadConfig
<1>9. EndModal \/ ButtonPress \/ Inhibit \/ FocusLost => UNCHANGED registered
  BY DEF EndModal, ButtonPress, Inhibit, FocusLost
<1>10. UNCHANGED vars => UNCHANGED registered
  BY DEF vars
<1> QED BY <1>1, <1>2, <1>3, <1>4, <1>5, <1>6, <1>7, <1>8, <1>9, <1>10, Zenon DEF Next

-----------------------------------------------------------------------------
(* The theorems                                                            *)

\* The invariant holds always.
LEMMA Invariant == Spec => []Inv
<1>1. Inv /\ [Next]_vars => Inv'
  <2> SUFFICES ASSUME Inv, [Next]_vars PROVE Inv'
    OBVIOUS
  <2> QED BY FilterStep, OtherTypesStep, DistinctStep, Zenon DEF Inv
<1> QED BY <1>1, InitInv, PTL DEF Spec

\* No two registrations answer to the same trigger and none to an escape chord, and the
\* state is of its type, in any order of registering, replacing, reloading and typing.
THEOREM OneTriggerEach == Spec => []TriggersDistinct
<1>1. Inv => TriggersDistinct
  BY Zenon DEF Inv, Filter, FilterTypes, OtherTypes, Distinct, TriggersDistinct, TypeOK
<1> QED BY <1>1, Invariant, PTL

\* A key is released by itself or together with all others, and pressed by itself.
LEMMA KeyMoves ==
  ASSUME Next, NEW k
  PROVE  /\ k \in pressed \ pressed' => (k \in All /\ Release(k)) \/ FocusLost
         /\ k \in pressed' \ pressed => k \in All /\ \E ctrlAlt \in BOOLEAN : Press(k, ctrlAlt)
<1>1. ASSUME NEW l \in All, Release(l)
      PROVE  pressed' = pressed \ {l}
  BY <1>1 DEF Release
<1>2. ASSUME NEW l \in All, NEW ctrlAlt \in BOOLEAN, Press(l, ctrlAlt)
      PROVE  pressed' = pressed \cup {l}
  BY <1>2 DEF Press
<1>3. ASSUME NEW m, BeginModal(m) PROVE pressed' = pressed
  BY <1>3 DEF BeginModal
<1>4. ASSUME NEW b, ReloadConfig(b) PROVE pressed' = pressed
  BY <1>4 DEF ReloadConfig, keys
<1>5. EndModal \/ ButtonPress \/ Inhibit => pressed' = pressed
  BY DEF EndModal, ButtonPress, Inhibit, keys
<1>6. ASSUME NEW i, NEW t, Unregister(i) \/ Register(i, t) \/ Replace(i, t)
      PROVE  pressed' = pressed
  BY <1>6 DEF Unregister, Register, Replace, keys
<1>7. FocusLost => pressed' = {}
  BY DEF FocusLost
<1>8. \/ pressed' = pressed
      \/ FocusLost
      \/ \E l \in All : Release(l) \/ \E ctrlAlt \in BOOLEAN : Press(l, ctrlAlt)
  BY <1>3, <1>4, <1>5, <1>6, Zenon DEF Next
<1>9. CASE pressed' = pressed
  BY <1>9
<1>10. CASE FocusLost
  BY <1>7, <1>10
<1>11. ASSUME NEW l \in All, Release(l) PROVE k \notin pressed' \ pressed /\ (k \in pressed \ pressed' => k = l)
  BY <1>1, <1>11
<1>12. ASSUME NEW l \in All, NEW ctrlAlt \in BOOLEAN, Press(l, ctrlAlt)
       PROVE  k \notin pressed \ pressed' /\ (k \in pressed' \ pressed => k = l)
  BY <1>2, <1>12
<1> QED BY <1>8, <1>9, <1>10, <1>11, <1>12, Zenon

\* Only a key whose press was forwarded is forwarded when it is released, whatever
\* selections, drags, inhibitors, shortcuts and reloads came between the two; unless the
\* focus is lost, which forwards the releases of all.
THEOREM ReleaseFollowsPress == Spec => ConsumedStaysConsumed
<1>1. Inv /\ [Next]_vars =>
        [\A k \in pressed \ pressed' :
           out' \in {"forward", "flushed"} /\ way[k] # "forward" => FocusLost]_vars
  <2> SUFFICES ASSUME Filter, Next, NEW k \in pressed \ pressed', ~FocusLost,
                      out' \in {"forward", "flushed"}
               PROVE  way[k] = "forward"
    BY Zenon DEF Inv
  <2>1. Release(k)
    BY KeyMoves
  <2>2. ReleaseOther(k)
    BY <2>1 DEF Release, ReleaseShortcut, ReleaseModifier, ReleaseConsumed
  <2> QED BY <2>1, <2>2 DEF Release, ReleaseOther, Filter, Forwarded
<1> QED BY <1>1, Invariant, PTL DEF Spec, ConsumedStaysConsumed

\* A key that a shortcut left in suppressed_keys loses one press and no second one in
\* succession: a press is lost only while the key is stuck, and none that was lost
\* leaves its key stuck.
THEOREM OneLost == Spec => OnePressLost
<1>1. Inv /\ [Next]_vars =>
        [\A k \in pressed' \ pressed : way'[k] = "swallow" => way[k] # "swallow"]_vars
  <2> SUFFICES ASSUME Filter, Next, NEW k \in pressed' \ pressed, way'[k] = "swallow"
               PROVE  way[k] # "swallow"
    BY Zenon DEF Inv
  <2>1. PICK ctrlAlt \in BOOLEAN : k \in All /\ Press(k, ctrlAlt)
    BY KeyMoves
  <2>2. way \in [All -> {"none", "swallow", "consumed", "forward"}]
    BY DEF Filter, FilterTypes
  <2>3. ASSUME NEW effect, Consumed(k, effect) PROVE FALSE
    BY <2>1, <2>2, <2>3 DEF Consumed
  <2>4. ASSUME NEW mods, PressForward(k, mods) PROVE FALSE
    BY <2>1, <2>2, <2>4 DEF PressForward
  <2>5. ~PressModal(k)
    BY <2>3, Zenon DEF PressModal
  <2>6. ASSUME NEW mods,
               \/ PressEscape(k, mods) \/ PressModifier(k, mods)
               \/ PressBinding(k, mods) \/ PressShortcut(k, mods)
        PROVE  FALSE
    BY <2>3, <2>6, Zenon DEF PressEscape, PressModifier, PressBinding, PressShortcut
  <2>7. PressSwallowed(k)
    BY <2>1, <2>4, <2>5, <2>6, Zenon DEF Press
  <2> QED BY <2>7 DEF PressSwallowed, Filter, Stuck
<1> QED BY <1>1, Invariant, PTL DEF Spec, OnePressLost

\* The modkey does what it is bound to only if nothing was put to use since its press: no
\* key, no button and no drag. The pending modkey is the lone one.
THEOREM TapAlone == Spec => TapIsAlone
<1>1. Inv /\ [Next]_vars =>
        [\A k \in ModKeys : out' = "toggle" /\ k \in pressed \ pressed' => lone = k]_vars
  <2> SUFFICES ASSUME Filter, Next, NEW k \in ModKeys, out' = "toggle",
                      k \in pressed \ pressed'
               PROVE  lone = k
    BY Zenon DEF Inv
  <2>1. ~FocusLost
    BY DEF FocusLost
  <2>2. Release(k)
    BY <2>1, KeyMoves
  <2>3. ReleaseModifier(k)
    BY <2>2 DEF Release, ReleaseShortcut, ReleaseConsumed, ReleaseOther
  <2>4. pending = k /\ k # NoKey
    BY <2>3, KeybindsAssumption DEF ReleaseModifier
  <2> QED BY <2>4 DEF Filter, Alone
<1> QED BY <1>1, Invariant, PTL DEF Spec, TapIsAlone
=============================================================================
