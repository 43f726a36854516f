---------------------- MODULE WorkspaceNavigation_proofs ----------------------
(***************************************************************************)
(* That no handler leaves a dangling index, a missing tail, a second       *)
(* presentation, a window or a publication behind, and that a swipe lands  *)
(* where it was shown, for any number of windows, popups, children,        *)
(* touchpads and slots.                                                    *)
(***************************************************************************)
EXTENDS WorkspaceNavigation, FiniteSetTheorems, WellFoundedInduction, TLAPS

-----------------------------------------------------------------------------
(* Least and greatest elements: Min and Max of FiniteSetsExt are CHOOSEs.  *)

\* A nonempty set of numbers with an upper bound has a least element: the
\* intervals 0..n of its elements n are ordered by strict inclusion.
LEMMA LeastElement ==
  ASSUME NEW N \in Nat, NEW S \in SUBSET (0 .. N), S # {}
  PROVE  \E m \in S : \A n \in S : m <= n
<1> DEFINE F == FiniteSubsetsOf(0 .. N)
           R == StrictSubsetOrdering(0 .. N)
           T == {0 .. n : n \in S}
<1>1. IsFiniteSet(0 .. N)
  BY FS_Interval
<1>2. IsWellFoundedOn(R, F)
  BY <1>1, FS_StrictSubsetOrderingWellFounded
<1>3. T \subseteq F
  BY <1>1, FS_Subset DEF FiniteSubsetsOf
<1>4. T # {}
  OBVIOUS
<1>5. PICK t \in T : \A y \in T : ~ (<<y, t>> \in R)
  <2> HIDE DEF R, T, F
  <2> QED BY <1>2, <1>3, <1>4, WFMin
<1>6. PICK m \in S : t = 0 .. m
  OBVIOUS
<1>7. ASSUME NEW n \in S, n < m PROVE FALSE
  <2>1. 0 .. n \subseteq 0 .. m /\ 0 .. n # 0 .. m
    BY <1>7
  <2>2. <<0 .. n, t>> \in R
    BY <2>1, <1>6, <1>7 DEF StrictSubsetOrdering
  <2> QED BY <2>2, <1>5
<1> QED BY <1>7

\* Min of a nonempty set of numbers is its least element, which no slot
\* before the nearest occupied one escapes.
LEMMA MinElement ==
  ASSUME NEW N \in Nat, NEW S \in SUBSET (0 .. N), S # {}
  PROVE  Min(S) \in S /\ \A n \in S : Min(S) <= n
BY LeastElement DEF Min

\* Max of a nonempty set of numbers is its greatest element, by counting
\* back from its bound.
LEMMA MaxElement ==
  ASSUME NEW N \in Nat, NEW S \in SUBSET (0 .. N), S # {}
  PROVE  Max(S) \in S /\ \A n \in S : n <= Max(S)
<1> DEFINE M == {N - n : n \in S}
<1>1. M \in SUBSET (0 .. N) /\ M # {}
  <2>1. \A n \in S : N - n \in 0 .. N
    OBVIOUS
  <2> QED BY <2>1
<1>2. PICK m \in M : \A n \in M : m <= n
  <2> HIDE DEF M
  <2> QED BY <1>1, LeastElement
<1>3. PICK g \in S : m = N - g
  OBVIOUS
<1>4. ASSUME NEW n \in S PROVE g >= n
  <2>1. N - n \in M
    OBVIOUS
  <2>2. N - g <= N - n
    BY <1>2, <1>3, <2>1
  <2>3. g \in Nat /\ n \in Nat
    OBVIOUS
  <2> QED BY <2>2, <2>3
<1> HIDE DEF M
<1>5. \E x \in S : \A n \in S : x >= n
  BY <1>4
<1>6. Max(S) \in S /\ \A n \in S : Max(S) >= n
  BY <1>5 DEF Max
<1>7. S \subseteq Int
  OBVIOUS
<1> QED BY <1>6, <1>7

\* Min of two numbers.
LEMMA MinPair ==
  ASSUME NEW a \in Nat, NEW b \in Nat
  PROVE  Min({a, b}) = IF a <= b THEN a ELSE b
BY DEF Min

\* Max of two numbers.
LEMMA MaxPair ==
  ASSUME NEW a \in Nat, NEW b \in Nat
  PROVE  Max({a, b}) = IF a <= b THEN b ELSE a
BY DEF Max

-----------------------------------------------------------------------------
(* The slot policy                                                         *)

\* A trim keeps at least two slots, at most MaxWorkspaces, the active slot and
\* every used one, with one more after each of them while there is room.
THEOREM RetainedKeepsTail ==
  ASSUME NEW predefined \in Nat, NEW active \in Slots,
         NEW used \in SUBSET (Slots \cup {NoSlot})
  PROVE  LET n == Retained(predefined, active, used)
         IN /\ n \in 2 .. MaxWorkspaces
            /\ \A i \in used \cup {active} :
                 i < n /\ (i + 2 <= n \/ n = MaxWorkspaces)
            /\ predefined + 1 <= n \/ n = MaxWorkspaces
<1> DEFINE N == predefined + MaxWorkspaces + 2
           A == {2, predefined + 1, active + 2}
           U == {i + 2 : i \in used}
           S == A \cup U
           n == Retained(predefined, active, used)
<1> USE MaxWorkspacesAssumption DEF Slots, NoSlot
<1>1. N \in Nat /\ S \in SUBSET (0 .. N) /\ S # {}
  OBVIOUS
<1>2. Max(S) \in S /\ \A x \in S : x <= Max(S)
  <2> HIDE DEF S, N
  <2> QED BY <1>1, MaxElement
<1>3. Max(S) \in Nat /\ Max(S) >= 2
  <2>1. 2 \in S
    OBVIOUS
  <2> QED BY <1>1, <1>2, <2>1
<1>4. n = IF MaxWorkspaces <= Max(S) THEN MaxWorkspaces ELSE Max(S)
  BY <1>3, MinPair DEF Retained
<1>5. predefined + 1 \in S /\ active + 2 \in S /\ \A i \in used : i + 2 \in S
  OBVIOUS
<1> HIDE DEF S, n
<1>6. n \in 2 .. MaxWorkspaces
  BY <1>3, <1>4
<1>7. predefined + 1 <= n \/ n = MaxWorkspaces
  BY <1>2, <1>3, <1>4, <1>5
<1>8. ASSUME NEW i \in used \cup {active}
      PROVE  i < n /\ (i + 2 <= n \/ n = MaxWorkspaces)
  BY <1>2, <1>3, <1>4, <1>5
<1> QED BY <1>6, <1>7, <1>8 DEF n

\* target() leads to the nearest slot on the side asked for that is occupied, or to the
\* nearest at all if empty ones are not skipped. If there is none it leads nowhere backwards
\* and forwards to the next slot, which past the last is one still to be made. From a slot
\* that does not exist it leads nowhere.
THEOREM TargetNearest ==
  ASSUME NEW occupied, NEW count \in Nat, NEW source \in Nat,
         NEW direction \in Directions, NEW skipEmpty \in BOOLEAN
  PROVE  LET t == Target(occupied, count, source, direction, skipEmpty)
             Admissible(i) == i \in 0 .. count - 1 /\ (skipEmpty => i \in occupied)
         IN IF source >= count THEN t = NoSlot
            ELSE IF direction = "Next"
            THEN \/ /\ t > source /\ Admissible(t)
                    /\ \A i \in source + 1 .. t - 1 : ~Admissible(i)
                 \/ /\ t = source + 1
                    /\ \A i \in source + 1 .. count - 1 : ~Admissible(i)
            ELSE \/ /\ t < source /\ Admissible(t)
                    /\ \A i \in t + 1 .. source - 1 : ~Admissible(i)
                 \/ /\ t = NoSlot
                    /\ \A i \in 0 .. source - 1 : ~Admissible(i)
<1> DEFINE admissible == {i \in 0 .. count - 1 : ~skipEmpty \/ i \in occupied}
           ahead  == {i \in admissible : i > source}
           behind == {i \in admissible : i < source}
           t == Target(occupied, count, source, direction, skipEmpty)
           Admissible(i) == i \in 0 .. count - 1 /\ (skipEmpty => i \in occupied)
<1>1. ahead \in SUBSET (0 .. count) /\ behind \in SUBSET (0 .. count)
  OBVIOUS
<1>2. ahead # {} => Min(ahead) \in ahead /\ \A i \in ahead : Min(ahead) <= i
  <2> HIDE DEF ahead
  <2> QED BY <1>1, MinElement
<1>3. behind # {} => Max(behind) \in behind /\ \A i \in behind : i <= Max(behind)
  <2> HIDE DEF behind
  <2> QED BY <1>1, MaxElement
<1>4. /\ \A i : i \in ahead <=> Admissible(i) /\ i > source
      /\ \A i : i \in behind <=> Admissible(i) /\ i < source
  OBVIOUS
<1>5. t = IF source >= count THEN NoSlot
          ELSE IF direction = "Next"
               THEN IF ahead # {} THEN Min(ahead) ELSE source + 1
               ELSE IF behind # {} THEN Max(behind) ELSE NoSlot
  BY DEF Target
<1>6. \A i : Admissible(i) => i \in 0 .. count - 1
  OBVIOUS
<1> HIDE DEF ahead, behind, t, Admissible
<1>7. CASE source >= count
  BY <1>5, <1>7 DEF t
<1>8. CASE source < count /\ direction = "Next"
  <2>1. t = IF ahead # {} THEN Min(ahead) ELSE source + 1
    BY <1>5, <1>8
  <2>2. CASE ahead # {}
    <3>1. Admissible(t) /\ t > source /\ \A i \in ahead : t <= i
      BY <1>2, <1>4, <2>1, <2>2
    <3>2. \A i \in source + 1 .. t - 1 : ~Admissible(i)
      BY <1>4, <1>6, <3>1
    <3> QED BY <1>8, <3>1, <3>2 DEF t, Admissible
  <2>3. CASE ahead = {}
    <3>1. \A i \in source + 1 .. count - 1 : ~Admissible(i)
      BY <1>4, <2>3
    <3> QED BY <1>8, <2>1, <2>3, <3>1 DEF t, Admissible
  <2> QED BY <2>2, <2>3
<1>9. CASE source < count /\ direction = "Previous"
  <2>1. t = IF behind # {} THEN Max(behind) ELSE NoSlot
    BY <1>5, <1>9
  <2>2. CASE behind # {}
    <3>1. Admissible(t) /\ t < source /\ \A i \in behind : i <= t
      BY <1>3, <1>4, <2>1, <2>2
    <3>2. \A i \in t + 1 .. source - 1 : ~Admissible(i)
      BY <1>4, <1>6, <3>1
    <3> QED BY <1>9, <3>1, <3>2 DEF t, Admissible
  <2>3. CASE behind = {}
    <3>1. \A i \in 0 .. source - 1 : ~Admissible(i)
      BY <1>4, <2>3
    <3> QED BY <1>9, <2>1, <2>3, <3>1 DEF t, Admissible
  <2> QED BY <2>2, <2>3
<1> QED BY <1>7, <1>8, <1>9 DEF Directions

\* In particular it leads to another slot on that side, at most to the one just past the last.
LEMMA TargetOnSide ==
  ASSUME NEW occupied, NEW count \in Nat, NEW source \in Nat,
         NEW direction \in Directions, NEW skipEmpty \in BOOLEAN
  PROVE  LET t == Target(occupied, count, source, direction, skipEmpty)
         IN \/ t = NoSlot
            \/ /\ t \in 0 .. count
               /\ IF direction = "Next" THEN t > source ELSE t < source
               /\ t < count \/ t = source + 1
<1> DEFINE admissible == {i \in 0 .. count - 1 : ~skipEmpty \/ i \in occupied}
           ahead  == {i \in admissible : i > source}
           behind == {i \in admissible : i < source}
<1>1. ahead \in SUBSET (0 .. count) /\ behind \in SUBSET (0 .. count)
  OBVIOUS
<1>2. ahead # {} => Min(ahead) \in ahead
  <2> HIDE DEF ahead
  <2> QED BY <1>1, MinElement
<1>3. behind # {} => Max(behind) \in behind
  <2> HIDE DEF behind
  <2> QED BY <1>1, MaxElement
<1> QED BY <1>1, <1>2, <1>3 DEF Target, Directions, NoSlot

-----------------------------------------------------------------------------
(* The inductive invariant                                                 *)

\* A reserved swipe starts on the active slot, and a preview leads somewhere.
Anchored(s) ==
  /\ Reserved(s) => s.stream.source = s.active
  /\ Previewing(s) => s.preview.target # NoSlot

\* What a trim asks of a state: any slot but the remembered one may be missing.
Trimmable(s) == s \in States /\ s.last < s.count /\ Anchored(s)

\* The inductive invariant: in addition every index is in range.
Sound(s) == Trimmable(s) /\ IndexesExist(s)

\* What a method keeps: the tail if there was one, every window on some slot, and
\* the promise to publish what a snapshot shows differently.
Tail(s, t)     == TailKept(s) => TailKept(t)
Shelters(s, t) == \A w \in Windows : s.home[w] # NoSlot => t.home[w] # NoSlot
Reports(s, t)  == /\ s.dirty => t.dirty
                  /\ View(t) # View(s) => t.dirty
Kept(s, t)     == Tail(s, t) /\ Shelters(s, t) /\ Reports(s, t)

\* What a method keeps, a chain of such methods keeps.
LEMMA KeptChain ==
  ASSUME NEW s, NEW t, NEW u, Kept(s, t), Kept(t, u)
  PROVE  Kept(s, u)
<1>1. Tail(s, u) /\ Shelters(s, u)
  BY DEF Kept, Tail, Shelters
<1>2. Reports(s, u)
  BY Zenon DEF Kept, Reports
<1> QED BY <1>1, <1>2 DEF Kept

\* What does nothing keeps everything.
LEMMA KeptSame ==
  ASSUME NEW s
  PROVE  Kept(s, s)
BY DEF Kept, Tail, Shelters, Reports

\* What ends in a trim, marks the state and forgets no window keeps everything.
LEMMA KeptMarked ==
  ASSUME NEW s, NEW t, TailKept(t), Shelters(s, t), t.dirty
  PROVE  Kept(s, t)
BY Zenon DEF Kept, Tail, Reports

\* t differs from s in no slot that is in use, and in nothing that is shown.
SameSlots(s, t) ==
  /\ t.predefined = s.predefined /\ t.count = s.count /\ t.active = s.active
  /\ t.home = s.home /\ t.popup = s.popup /\ t.launch = s.launch
  /\ t.overviewVisible = s.overviewVisible /\ t.dirty = s.dirty

\* What changes no slot keeps the tail, the windows and what is shown.
LEMMA SameSlotsKept ==
  ASSUME NEW s, NEW t, SameSlots(s, t)
  PROVE  Kept(s, t)
<1>1. Tail(s, t) /\ Shelters(s, t)
  BY DEF SameSlots, Tail, TailKept, TailAfter, Shelters
<1>2. Reports(s, t)
  BY Zenon DEF SameSlots, Reports, View
<1> QED BY <1>1, <1>2 DEF Kept

\* t differs from s in nothing that fingers move.
SameGesture(s, t) ==
  /\ t.stream = s.stream /\ t.clientSwipe = s.clientSwipe
  /\ t.preview = s.preview /\ t.previewDevice = s.previewDevice

\* Nor in what moves by itself.
SameMotion(s, t) ==
  SameGesture(s, t) /\ t.tracks = s.tracks /\ t.timer = s.timer

\* One presentation and one owner of the touchpad, and the timer with them.
Presented(s) ==
  Coherent(s) /\ (s.clientSwipe <=> s.stream.owner = "Client")
Steady(s) == Presented(s) /\ (s.timer <=> TimedMotion(s))

\* What moves nothing keeps both.
LEMMA SameMotionSteady ==
  ASSUME NEW s, NEW t, Steady(s), SameMotion(s, t), t.active = s.active
  PROVE  Steady(t)
BY DEF Steady, Presented, Coherent, SameMotion, SameGesture,
       TimedMotion, Settling, Previewing, Reserved

\* t differs from s in no index.
SameIndexes(s, t) ==
  /\ t.count = s.count /\ t.active = s.active /\ t.last = s.last /\ t.home = s.home
  /\ t.popup = s.popup /\ t.launch = s.launch /\ t.tracks = s.tracks
  /\ t.preview = s.preview /\ t.stream = s.stream

\* What changes no index leaves them all in range.
LEMMA SameIndexesSound ==
  ASSUME NEW s, NEW t, Sound(s), t \in States, SameIndexes(s, t)
  PROVE  Sound(t)
BY DEF Sound, Trimmable, Anchored, IndexesExist, Reserved, Previewing, SameIndexes

-----------------------------------------------------------------------------
(* The methods of struct Villain: slots                                    *)

\* Making room for a slot leaves everything in range.
LEMMA EnsureSound ==
  ASSUME NEW s, Sound(s), NEW i \in Slots
  PROVE  /\ Sound(Ensure(s, i))
         /\ i < Ensure(s, i).count
         /\ Ensure(s, i).active = s.active
         /\ Ensure(s, i).home = s.home
         /\ Ensure(s, i).stream = s.stream
         /\ Ensure(s, i).dirty = s.dirty /\ Ensure(s, i).fresh = s.fresh
         /\ Tail(s, Ensure(s, i)) /\ SameMotion(s, Ensure(s, i))
         /\ i < s.count => Ensure(s, i) = s
<1> DEFINE n == Max({s.count, i + 1})
           t == [s EXCEPT !.count = n]
<1>1. s \in States
  BY DEF Sound, Trimmable
<1>2. n \in 2 .. MaxWorkspaces /\ s.count <= n /\ i < n /\ (i < s.count => n = s.count)
  <2>1. s.count \in Nat /\ i + 1 \in Nat /\ s.count \in 2 .. MaxWorkspaces
    BY <1>1, MaxWorkspacesAssumption DEF States, Slots
  <2>2. n = IF s.count <= i + 1 THEN i + 1 ELSE s.count
    BY <2>1, MaxPair
  <2> QED BY <2>1, <2>2, MaxWorkspacesAssumption DEF Slots
<1> HIDE DEF n
<1>3. t \in States
  BY <1>1, <1>2, Zenon DEF States
<1>4. t.count = n /\ SameIndexes(s, [t EXCEPT !.count = s.count])
  BY <1>1, SMT DEF States, SameIndexes
<1>5. /\ t.active = s.active /\ t.last = s.last /\ t.home = s.home
      /\ t.popup = s.popup /\ t.launch = s.launch /\ t.tracks = s.tracks
      /\ t.preview = s.preview /\ t.stream = s.stream
  BY <1>1, SMT DEF States
<1>6. /\ s.count \in Int /\ s.active \in Int /\ s.last \in Int
      /\ \A w \in Windows : s.home[w] \in Int
      /\ \A p \in Popups : s.popup[p].slot \in Int
      /\ \A c \in Launches : s.launch[c] \in Int
      /\ \A j \in s.tracks : j \in Int
      /\ s.preview.source \in Int /\ s.preview.target \in Int /\ s.stream.source \in Int
  BY <1>1, MaxWorkspacesAssumption DEF States, Slots, NoSlot, Placed, Previews, Streams
<1>7. /\ SameMotion(s, t) /\ t.predefined = s.predefined
      /\ t.dirty = s.dirty /\ t.fresh = s.fresh
  BY <1>1, SMT DEF States, SameMotion, SameGesture
<1>8. i < s.count => t = s
  BY <1>1, <1>2 DEF States
<1> HIDE DEF t
<1>9. Sound(t)
  BY <1>2, <1>3, <1>4, <1>5, <1>6
     DEF Sound, Trimmable, Anchored, IndexesExist, Reserved, Previewing
<1>10. Tail(s, t)
  <2>1. s.predefined \in Nat /\ s.count \in 2 .. MaxWorkspaces
    BY <1>1, NavigationAssumption, Zenon DEF States
  <2>2. \A j \in Int : TailAfter(s, j) => TailAfter(t, j)
    BY <1>2, <1>4, <2>1, MaxWorkspacesAssumption DEF TailAfter
  <2> QED BY <1>5, <1>6, <1>7, <2>1, <2>2 DEF Tail, TailKept
<1> QED BY <1>2, <1>4, <1>5, <1>7, <1>8, <1>9, <1>10 DEF Ensure, t, n

\* A trim brings every index into range, and truncates no slot with a window.
LEMMA TrimSound ==
  ASSUME NEW s, Trimmable(s)
  PROVE  /\ Sound(Trim(s))
         /\ Trim(s).active = s.active
         /\ Trim(s).home = s.home
         /\ Trim(s).stream = s.stream
         /\ Trim(s).fresh = s.fresh
         /\ TailKept(Trim(s)) /\ Kept(s, Trim(s)) /\ SameMotion(s, Trim(s))
<1> DEFINE n == Retained(s.predefined, s.active, Used(s))
           l == IF n < s.count /\ s.last >= n THEN NoSlot ELSE s.last
           d == s.dirty \/ n # s.count
           t == [s EXCEPT !.count = n, !.last = l, !.home = s.home, !.dirty = d]
<1>1. s \in States
  BY DEF Trimmable
<1>2. s.predefined \in Nat /\ s.active \in Slots
  BY <1>1, NavigationAssumption DEF States
<1>3. Used(s) \in SUBSET (Slots \cup {NoSlot})
  BY <1>1 DEF States, Placed, Previews, Used, Occupied
<1>4. /\ n \in 2 .. MaxWorkspaces
      /\ \A i \in Used(s) \cup {s.active} :
           i < n /\ (i + 2 <= n \/ n = MaxWorkspaces)
      /\ s.predefined + 1 <= n \/ n = MaxWorkspaces
  BY <1>2, <1>3, RetainedKeepsTail
<1>5. \A w \in Windows : s.home[w] < n /\ (s.home[w] + 2 <= n \/ n = MaxWorkspaces)
  <2>1. SUFFICES ASSUME NEW w \in Windows
                 PROVE  s.home[w] < n /\ (s.home[w] + 2 <= n \/ n = MaxWorkspaces)
    OBVIOUS
  <2>2. CASE s.home[w] = NoSlot
    BY <2>2, <1>4 DEF NoSlot
  <2>3. CASE s.home[w] # NoSlot
    <3>1. s.home[w] \in Slots
      BY <1>1, <2>3 DEF States
    <3>2. s.home[w] \in Used(s)
      BY <3>1 DEF Used, Occupied
    <3> QED BY <3>2, <1>4
  <2> QED BY <2>2, <2>3
<1>6. /\ \A p \in Popups : s.popup[p].slot < n
      /\ \A c \in Launches : s.launch[c] < n
      /\ \A i \in s.tracks : i < n
      /\ s.preview.source < n /\ s.preview.target < n
  BY <1>4 DEF Used
<1>7. [w \in Windows |-> IF s.home[w] >= n THEN NoSlot ELSE s.home[w]] = s.home
  BY <1>1, <1>4, <1>5 DEF States, Slots, NoSlot
<1>8. Trim(s) = t
  <2> HIDE DEF n
  <2> QED BY <1>1, <1>7 DEF Trim, n, States
<1>9. l \in Slots \cup {NoSlot} /\ l < n
  BY <1>1, <1>4 DEF Trimmable, States, Slots, NoSlot
<1>10. d \in BOOLEAN
  OBVIOUS
<1> HIDE DEF n, l, d
<1>11. t \in States
  BY <1>1, <1>4, <1>9, <1>10, Zenon DEF States
<1>12. /\ t.count = n /\ t.active = s.active /\ t.last = l /\ t.home = s.home
       /\ t.popup = s.popup /\ t.launch = s.launch /\ t.tracks = s.tracks
       /\ t.preview = s.preview /\ t.stream = s.stream
       /\ t.predefined = s.predefined
  BY <1>1, SMT DEF States
<1>13. SameMotion(s, t) /\ t.fresh = s.fresh
  BY <1>1, SMT DEF States, SameMotion, SameGesture
<1>14. Reports(s, t)
  <2>1. t.overviewVisible = s.overviewVisible /\ t.dirty = d
    BY <1>1, Zenon DEF States
  <2>2. (s.dirty => d) /\ (n # s.count => d)
    BY Zenon DEF d
  <2> QED BY <1>12, <2>1, <2>2, Zenon DEF Reports, View
<1> HIDE DEF t
<1>15. Sound(t)
  BY <1>4, <1>5, <1>6, <1>9, <1>11, <1>12
     DEF Sound, Trimmable, Anchored, IndexesExist, Reserved, Previewing
<1>16. TailKept(t)
  <2>1. \A p \in Popups : s.popup[p].slot \in Used(s)
    BY DEF Used
  <2>2. \A c \in Launches : s.launch[c] \in Used(s)
    BY DEF Used
  <2>3. (s.predefined - 1) + 2 = s.predefined + 1
    BY <1>2
  <2> QED BY <1>4, <1>5, <1>12, <2>1, <2>2, <2>3 DEF TailKept, TailAfter
<1>17. Kept(s, t)
  BY <1>12, <1>14, <1>16 DEF Kept, Tail, Shelters
<1> QED BY <1>8, <1>12, <1>13, <1>15, <1>16, <1>17

-----------------------------------------------------------------------------
(* The methods of struct Villain: timed motion and the swipe preview       *)

\* Dropping the tracks of an animation drops indexes only.
LEMMA StillTracksSound ==
  ASSUME NEW s, Sound(s)
  PROVE  /\ Sound(StillTracks(s)) /\ StillTracks(s).active = s.active
         /\ Kept(s, StillTracks(s))
         /\ StillTracks(s).tracks = {} /\ SameGesture(s, StillTracks(s))
         /\ StillTracks(s).timer = s.timer
<1> DEFINE z == [i \in Slots |-> 0]
           t == [s EXCEPT !.tracks = {}, !.goal = z, !.left = z]
<1>1. s \in States
  BY DEF Sound, Trimmable
<1>2. z \in [Slots -> -1 .. 1] /\ z \in [Slots -> 0 .. SettleTicks]
  BY NavigationAssumption
<1> HIDE DEF z
<1>3. t \in States
  BY <1>1, <1>2, Zenon DEF States
<1>4. /\ t.count = s.count /\ t.active = s.active /\ t.last = s.last /\ t.home = s.home
      /\ t.popup = s.popup /\ t.launch = s.launch /\ t.tracks = {}
      /\ t.preview = s.preview /\ t.stream = s.stream
  BY <1>1, SMT DEF States
<1>5. SameSlots(s, t) /\ SameGesture(s, t) /\ t.timer = s.timer
  BY <1>1, SMT DEF States, SameSlots, SameGesture
<1> HIDE DEF t
<1>6. Sound(t)
  BY <1>3, <1>4, SMT DEF Sound, Trimmable, Anchored, IndexesExist, Reserved, Previewing
<1> QED BY <1>4, <1>5, <1>6, SameSlotsKept DEF t, z, StillTracks

\* The timer holds no index.
LEMMA RetireTimerSound ==
  ASSUME NEW s, Sound(s)
  PROVE  /\ Sound(RetireTimer(s))
         /\ RetireTimer(s).active = s.active
         /\ RetireTimer(s).stream = s.stream
         /\ Kept(s, RetireTimer(s))
         /\ RetireTimer(s).tracks = s.tracks /\ SameGesture(s, RetireTimer(s))
         /\ RetireTimer(s).timer <=> s.timer /\ TimedMotion(s)
<1> DEFINE t == [s EXCEPT !.timer = FALSE]
<1>1. s \in States
  BY DEF Sound, Trimmable
<1>2. t \in States
  BY <1>1, Zenon DEF States
<1>3. SameIndexes(s, t)
  BY <1>1, SMT DEF States, SameIndexes
<1>4. Sound(t) /\ t.active = s.active /\ t.stream = s.stream /\ t.tracks = s.tracks
  BY <1>2, <1>3, SameIndexesSound DEF SameIndexes
<1>5. SameSlots(s, t) /\ SameGesture(s, t)
  BY <1>1, SMT DEF States, SameSlots, SameGesture
<1>6. t.timer = FALSE
  BY <1>1, Zenon DEF States
<1>7. Kept(s, t) /\ Kept(s, s) /\ SameGesture(s, s)
  BY <1>5, SameSlotsKept, KeptSame DEF SameGesture
<1> HIDE DEF t
<1>8. CASE TimedMotion(s)
  BY <1>7, <1>8, Zenon DEF RetireTimer
<1>9. CASE ~TimedMotion(s)
  <2>1. RetireTimer(s) = t
    BY <1>9 DEF RetireTimer, t
  <2> QED BY <1>4, <1>5, <1>6, <1>7, <1>9, <2>1, Zenon
<1> QED BY <1>8, <1>9

\* Setting or removing the preview keeps a state trimmable.
WithPreview(s, p, d) == [s EXCEPT !.preview = p, !.previewDevice = d]

\* A preview of existing slots may be put in place of another, and one of
\* slots still to be made as long as a trim or a growth follows.
LEMMA PreviewTrimmable ==
  ASSUME NEW s, Sound(s), NEW d \in Devices \cup {NoDevice},
         NEW p, p \in Previews,
         p.source # NoSlot => p.target # NoSlot
  PROVE  /\ Trimmable(WithPreview(s, p, d))
         /\ p.source < s.count /\ p.target < s.count => Sound(WithPreview(s, p, d))
         /\ WithPreview(s, p, d).active = s.active
         /\ WithPreview(s, p, d).count = s.count
         /\ WithPreview(s, p, d).stream = s.stream
         /\ Kept(s, WithPreview(s, p, d)) /\ WithPreview(s, p, d).home = s.home
         /\ WithPreview(s, p, d).preview = p /\ WithPreview(s, p, d).previewDevice = d
         /\ WithPreview(s, p, d).tracks = s.tracks
         /\ WithPreview(s, p, d).timer = s.timer
         /\ WithPreview(s, p, d).clientSwipe = s.clientSwipe
<1> DEFINE t == [s EXCEPT !.preview = p, !.previewDevice = d]
<1>1. s \in States
  BY DEF Sound, Trimmable
<1>2. t \in States
  BY <1>1, Zenon DEF States
<1>3. /\ t.count = s.count /\ t.active = s.active /\ t.last = s.last /\ t.home = s.home
      /\ t.popup = s.popup /\ t.launch = s.launch /\ t.tracks = s.tracks
      /\ t.preview = p /\ t.stream = s.stream
  BY <1>1, SMT DEF States
<1>4. /\ SameSlots(s, t) /\ t.previewDevice = d /\ t.timer = s.timer
      /\ t.clientSwipe = s.clientSwipe
  BY <1>1, SMT DEF States, SameSlots
<1> HIDE DEF t
<1>5. Trimmable(t)
  BY <1>2, <1>3 DEF Sound, Trimmable, Anchored, Reserved, Previewing
<1>6. p.source < s.count /\ p.target < s.count => Sound(t)
  BY <1>3, <1>5 DEF Sound, IndexesExist, Reserved
<1> QED BY <1>3, <1>4, <1>5, <1>6, SameSlotsKept DEF t, WithPreview

\* The absent preview is a preview of no slot.
LEMMA NoPreviewTyped ==
  /\ NoPreview \in Previews
  /\ NoPreview.source = NoSlot /\ NoPreview.target = NoSlot
BY NavigationAssumption DEF NoPreview, Previews, Directions

\* t is s without its preview.
Unveiled(s, t) ==
  /\ t.active = s.active /\ t.stream = s.stream /\ t.clientSwipe = s.clientSwipe
  /\ t.tracks = s.tracks
  /\ t.preview = NoPreview /\ t.previewDevice = NoDevice

\* A preview may be hidden at any time.
LEMMA HiddenSound ==
  ASSUME NEW s, Sound(s)
  PROVE  /\ Sound(WithPreview(s, NoPreview, NoDevice))
         /\ Kept(s, WithPreview(s, NoPreview, NoDevice))
         /\ Unveiled(s, WithPreview(s, NoPreview, NoDevice))
         /\ WithPreview(s, NoPreview, NoDevice).timer = s.timer
<1> DEFINE t == WithPreview(s, NoPreview, NoDevice)
<1>1. NoSlot < s.count
  BY MaxWorkspacesAssumption DEF Sound, Trimmable, States, NoSlot
<1>2. /\ Sound(t) /\ Kept(s, t) /\ t.active = s.active /\ t.stream = s.stream
      /\ t.preview = NoPreview /\ t.previewDevice = NoDevice
      /\ t.tracks = s.tracks /\ t.timer = s.timer /\ t.clientSwipe = s.clientSwipe
  BY <1>1, NoPreviewTyped, PreviewTrimmable
<1> HIDE DEF t
<1> QED BY <1>2 DEF Unveiled, t

\* stop_swipe_visual(): the trim after the preview is
\* gone leaves every other index in range.
LEMMA StopSwipeVisualSound ==
  ASSUME NEW s, Sound(s)
  PROVE  /\ Sound(StopSwipeVisual(s))
         /\ Kept(s, StopSwipeVisual(s)) /\ Unveiled(s, StopSwipeVisual(s))
         /\ StopSwipeVisual(s).timer <=> s.timer /\ s.tracks # {}
<1> DEFINE hidden == [s EXCEPT !.previewDevice = NoDevice, !.preview = NoPreview]
<1>1. hidden = WithPreview(s, NoPreview, NoDevice)
  BY DEF Sound, Trimmable, States, WithPreview
<1>2. /\ Sound(hidden) /\ Kept(s, hidden) /\ Unveiled(s, hidden)
      /\ hidden.timer = s.timer
  BY <1>1, HiddenSound
<1> DEFINE t == IF Previewing(s) THEN Trim(hidden) ELSE hidden
<1> HIDE DEF hidden
<1>3. /\ Sound(Trim(hidden)) /\ Kept(hidden, Trim(hidden))
      /\ SameMotion(hidden, Trim(hidden)) /\ Trim(hidden).active = hidden.active
  BY <1>2, TrimSound DEF Sound
<1>4. Sound(t) /\ Kept(s, t) /\ Unveiled(s, t) /\ t.timer = s.timer
  BY <1>2, <1>3, KeptChain DEF SameMotion, SameGesture, Unveiled
<1>5. StopSwipeVisual(s) = RetireTimer(t)
  BY DEF StopSwipeVisual, hidden
<1> HIDE DEF t
<1>6. TimedMotion(t) <=> s.tracks # {}
  BY <1>4, NoPreviewTyped DEF TimedMotion, Settling, Previewing, Unveiled
<1>7. /\ Sound(RetireTimer(t)) /\ Kept(t, RetireTimer(t))
      /\ RetireTimer(t).active = t.active /\ RetireTimer(t).tracks = t.tracks
      /\ SameGesture(t, RetireTimer(t))
      /\ RetireTimer(t).timer <=> t.timer /\ TimedMotion(t)
  BY <1>4, RetireTimerSound
<1>8. Unveiled(s, RetireTimer(t))
  BY <1>4, <1>7 DEF SameGesture, Unveiled
<1>9. Kept(s, RetireTimer(t))
  BY <1>4, <1>7, KeptChain
<1>10. RetireTimer(t).timer <=> s.timer /\ s.tracks # {}
  BY <1>4, <1>6, <1>7, Zenon
<1> QED BY <1>5, <1>7, <1>8, <1>9, <1>10, Zenon

\* A stream that is not reserved refers to no slot.
WithStream(s, c, r) == [s EXCEPT !.clientSwipe = c, !.stream = r]

\* A stream may be replaced, if a reserved one starts on the active slot.
LEMMA StreamSound ==
  ASSUME NEW s, Sound(s), NEW c \in BOOLEAN,
         NEW r, r \in Streams,
         r.owner = "Reserved" => r.source = s.active
  PROVE  /\ Sound(WithStream(s, c, r))
         /\ WithStream(s, c, r).active = s.active
         /\ WithStream(s, c, r).stream = r /\ WithStream(s, c, r).clientSwipe = c
         /\ Kept(s, WithStream(s, c, r))
         /\ WithStream(s, c, r).tracks = s.tracks /\ WithStream(s, c, r).timer = s.timer
         /\ WithStream(s, c, r).preview = s.preview
         /\ WithStream(s, c, r).previewDevice = s.previewDevice
<1> DEFINE t == [s EXCEPT !.clientSwipe = c, !.stream = r]
<1>1. s \in States
  BY DEF Sound, Trimmable
<1>2. t \in States
  BY <1>1, Zenon DEF States
<1>3. /\ t.count = s.count /\ t.active = s.active /\ t.last = s.last /\ t.home = s.home
      /\ t.popup = s.popup /\ t.launch = s.launch /\ t.tracks = s.tracks
      /\ t.preview = s.preview /\ t.stream = r
  BY <1>1, SMT DEF States
<1>4. /\ SameSlots(s, t) /\ t.clientSwipe = c /\ t.timer = s.timer
      /\ t.previewDevice = s.previewDevice
  BY <1>1, SMT DEF States, SameSlots
<1> HIDE DEF t
<1>5. Sound(t)
  BY <1>2, <1>3 DEF Sound, Trimmable, Anchored, IndexesExist, Reserved, Previewing
<1> QED BY <1>3, <1>4, <1>5, SameSlotsKept DEF t, WithStream

\* t is s with its swipe cancelled: no preview, a discarded stream or none, a client
\* that knows, and no timer but for an animation.
Cancelled(s, t) ==
  /\ t.active = s.active /\ t.tracks = s.tracks
  /\ t.preview = NoPreview /\ t.previewDevice = NoDevice
  /\ t.stream.device = s.stream.device
  /\ t.stream.owner = IF s.stream.owner = "None" THEN "None" ELSE "Discard"
  /\ t.clientSwipe <=> s.clientSwipe /\ s.stream.owner # "Client"
  /\ t.timer <=> s.timer /\ s.tracks # {}

\* cancel_swipe() leaves every index in range and the active slot alone.
LEMMA CancelSwipeSound ==
  ASSUME NEW s, Sound(s)
  PROVE  /\ Sound(CancelSwipe(s))
         /\ CancelSwipe(s).active = s.active
         /\ ~Reserved(CancelSwipe(s))
         /\ Kept(s, CancelSwipe(s)) /\ Cancelled(s, CancelSwipe(s))
<1> DEFINE c == s.clientSwipe /\ s.stream.owner # "Client"
           r == [s.stream EXCEPT !.owner = "Discard", !.axis = "Pending", !.offset = 0]
           t == WithStream(s, c, r)
           u == [s EXCEPT !.clientSwipe = @ /\ s.stream.owner # "Client",
                          !.stream.owner = "Discard",
                          !.stream.axis = "Pending", !.stream.offset = 0]
<1>1. s \in States
  BY DEF Sound, Trimmable
<1>2. c \in BOOLEAN
  OBVIOUS
<1>3. /\ r \in Streams
      /\ r.owner = "Discard" /\ r.device = s.stream.device
  <2>1. s.stream \in Streams
    BY <1>1, Zenon DEF States
  <2>2. 0 \in -2 .. 2
    OBVIOUS
  <2>3. r \in Streams
    BY <2>1, <2>2, Zenon DEF Streams
  <2>4. r.owner = "Discard" /\ r.device = s.stream.device
    BY <2>1 DEF Streams
  <2> QED BY <2>3, <2>4
<1>4. u = t
  BY <1>1, Zenon DEF States, WithStream
<1>5. c <=> s.clientSwipe /\ s.stream.owner # "Client"
  BY Zenon
<1> HIDE DEF c, r, u
<1>6. /\ Sound(t) /\ Kept(s, t) /\ t.active = s.active /\ t.stream = r
      /\ t.clientSwipe = c /\ t.tracks = s.tracks /\ t.timer = s.timer
  BY <1>2, <1>3, StreamSound
<1> HIDE DEF t
<1>7. ASSUME NEW x, Sound(x)
      PROVE  /\ Sound(StopSwipeVisual(x)) /\ Kept(x, StopSwipeVisual(x))
             /\ Unveiled(x, StopSwipeVisual(x))
             /\ StopSwipeVisual(x).timer <=> x.timer /\ x.tracks # {}
  BY <1>7, StopSwipeVisualSound
<1>8. CASE s.stream.owner = "None"
  <2>1. CancelSwipe(s) = StopSwipeVisual(s)
    BY <1>8 DEF CancelSwipe
  <2>2. Cancelled(s, StopSwipeVisual(s))
    BY <1>7, <1>8, Zenon DEF Unveiled, Cancelled
  <2> QED BY <1>7, <1>8, <2>1, <2>2 DEF Reserved, Cancelled
<1>9. CASE s.stream.owner # "None"
  <2>1. CancelSwipe(s) = StopSwipeVisual(t)
    BY <1>4, <1>9 DEF CancelSwipe, u
  <2>2. /\ Unveiled(t, StopSwipeVisual(t))
        /\ StopSwipeVisual(t).timer <=> t.timer /\ t.tracks # {}
    BY <1>6, <1>7
  <2>3. StopSwipeVisual(t).stream = r
    BY <1>6, <2>2 DEF Unveiled
  <2>4. Cancelled(s, StopSwipeVisual(t))
    BY <1>3, <1>5, <1>6, <1>9, <2>2, <2>3, Zenon DEF Unveiled, Cancelled
  <2>5. Kept(s, StopSwipeVisual(t))
    BY <1>6, <1>7, KeptChain
  <2> QED BY <1>6, <1>7, <1>9, <2>1, <2>4, <2>5 DEF Reserved, Cancelled
<1> QED BY <1>8, <1>9

\* A cancelled swipe leaves the touchpad to nobody and the timer to the animation.
LEMMA CancelSwipeSteady ==
  ASSUME NEW s, Sound(s), Steady(s)
  PROVE  Steady(CancelSwipe(s))
<1> DEFINE t == CancelSwipe(s)
<1>1. Cancelled(s, t)
  BY CancelSwipeSound
<1> HIDE DEF t
<1>2. ~Previewing(t) /\ (TimedMotion(t) <=> s.tracks # {}) /\ ~Reserved(t)
  BY <1>1, NoPreviewTyped DEF Cancelled, Previewing, Settling, TimedMotion, Reserved
<1>3. Coherent(t)
  BY <1>1, <1>2 DEF Steady, Presented, Coherent, Cancelled
<1>4. ~t.clientSwipe /\ t.stream.owner # "Client"
  BY <1>1, Zenon DEF Steady, Presented, Cancelled
<1>5. t.timer <=> TimedMotion(t)
  BY <1>1, <1>2, Zenon DEF Steady, TimedMotion, Cancelled
<1> QED BY <1>3, <1>4, <1>5, Zenon DEF t, Steady, Presented

\* t is s without its animation.
Stilled(s, t) ==
  /\ t.active = s.active /\ SameGesture(s, t) /\ t.tracks = {}
  /\ t.timer <=> s.timer /\ Settling(s)

\* Cancelling an animation, which trims, leaves every index in range, whatever the
\* tail was before.
LEMMA CancelMotionSound ==
  ASSUME NEW s, Sound(s)
  PROVE  /\ Sound(CancelMotion(s)) /\ CancelMotion(s).active = s.active
         /\ TailKept(CancelMotion(s)) /\ Kept(s, CancelMotion(s))
         /\ Stilled(s, CancelMotion(s))
<1> DEFINE a == StillTracks(s)
           b == RetireTimer(a)
           t == Trim(b)
<1>1. /\ Sound(a) /\ a.active = s.active /\ Kept(s, a)
      /\ a.tracks = {} /\ SameGesture(s, a) /\ a.timer = s.timer
  BY StillTracksSound
<1> HIDE DEF a
<1>2. /\ Sound(b) /\ b.active = a.active /\ Kept(a, b)
      /\ b.tracks = a.tracks /\ SameGesture(a, b)
      /\ b.timer <=> a.timer /\ TimedMotion(a)
  BY <1>1, RetireTimerSound
<1> HIDE DEF b
<1>3. /\ Sound(t) /\ t.active = b.active
      /\ TailKept(t) /\ Kept(b, t) /\ SameMotion(b, t)
  BY <1>2, TrimSound DEF Sound
<1> HIDE DEF t
<1>4. Kept(s, t)
  BY <1>1, <1>2, <1>3, KeptChain
<1>5. TimedMotion(a) <=> Settling(s)
  BY <1>1 DEF TimedMotion, SameGesture, Settling, Previewing
<1>6. t.active = s.active /\ SameGesture(s, t) /\ t.tracks = {}
  BY <1>1, <1>2, <1>3 DEF SameMotion, SameGesture
<1>7. t.timer <=> s.timer /\ Settling(s)
  BY <1>1, <1>2, <1>3, <1>5, Zenon DEF SameMotion
<1> QED BY <1>3, <1>4, <1>6, <1>7 DEF CancelMotion, Stilled, a, b, t

\* It leaves the timer to a preview that settles.
LEMMA CancelMotionSteady ==
  ASSUME NEW s, Sound(s), Steady(s)
  PROVE  Steady(CancelMotion(s))
<1> DEFINE t == CancelMotion(s)
<1>1. Stilled(s, t)
  BY CancelMotionSound
<1> HIDE DEF t
<1>2. Presented(t)
  BY <1>1 DEF Steady, Presented, Coherent, Stilled, SameGesture,
              Reserved, Previewing, Settling
<1>3. TimedMotion(t) <=> Settling(s)
  BY <1>1 DEF Stilled, SameGesture, TimedMotion, Settling, Previewing
<1>4. t.timer <=> TimedMotion(t)
  BY <1>1, <1>3, Zenon DEF Stilled, Steady, TimedMotion
<1> QED BY <1>2, <1>4, Zenon DEF t, Steady

\* Hiding the preview leaves the timer to the animation.
LEMMA StopSwipeVisualSteady ==
  ASSUME NEW s, Sound(s), Steady(s)
  PROVE  Steady(StopSwipeVisual(s))
<1> DEFINE t == StopSwipeVisual(s)
<1>1. Unveiled(s, t) /\ (t.timer <=> s.timer /\ s.tracks # {})
  BY StopSwipeVisualSound
<1> HIDE DEF t
<1>2. ~Previewing(t) /\ (TimedMotion(t) <=> s.tracks # {})
  BY <1>1, NoPreviewTyped DEF Unveiled, Previewing, Settling, TimedMotion
<1>3. Presented(t)
  BY <1>1, <1>2 DEF Steady, Presented, Coherent, Unveiled, Reserved
<1>4. t.timer <=> TimedMotion(t)
  BY <1>1, <1>2, Zenon DEF Steady, TimedMotion
<1> QED BY <1>3, <1>4, Zenon DEF t, Steady

\* Finishing all motion leaves every index in range.
LEMMA FinishMotionSound ==
  ASSUME NEW s, Sound(s)
  PROVE  /\ Sound(FinishMotion(s)) /\ Kept(s, FinishMotion(s))
         /\ Steady(s) => Steady(FinishMotion(s))
BY CancelMotionSound, CancelMotionSteady, StopSwipeVisualSound, StopSwipeVisualSteady,
   KeptChain, KeptSame
   DEF FinishMotion

\* maintain_swipe() leaves every index in range, whatever it cancels.
LEMMA MaintainSwipeSound ==
  ASSUME NEW s, Sound(s)
  PROVE  /\ Sound(MaintainSwipe(s)) /\ Kept(s, MaintainSwipe(s))
         /\ Steady(s) => Steady(MaintainSwipe(s))
<1> DEFINE a == IF s.tracks # {} /\ MotionBlocked(s) THEN CancelMotion(s) ELSE s
<1>1. Sound(a) /\ Kept(s, a) /\ (Steady(s) => Steady(a))
  BY CancelMotionSound, CancelMotionSteady, KeptSame
<1>2. MaintainSwipe(s) = a \/ MaintainSwipe(s) = CancelSwipe(a)
  BY Zenon DEF MaintainSwipe
<1> HIDE DEF a
<1>3. /\ Sound(CancelSwipe(a)) /\ Kept(s, CancelSwipe(a))
      /\ Steady(s) => Steady(CancelSwipe(a))
  BY <1>1, CancelSwipeSound, CancelSwipeSteady, KeptChain
<1> QED BY <1>1, <1>2, <1>3

\* schedule_motion_tick() leaves every index in range, also when the timer
\* cannot be registered, and gives the timer to what moves.
LEMMA ScheduleSound ==
  ASSUME NEW s, Sound(s), NEW ok \in BOOLEAN
  PROVE  /\ Sound(Schedule(s, ok)) /\ Kept(s, Schedule(s, ok))
         /\ Presented(s) /\ (s.timer => TimedMotion(s)) => Steady(Schedule(s, ok))
<1> DEFINE t == [s EXCEPT !.timer = TRUE]
           a == StillTracks(s)
           u == StopSwipeVisual(a)
<1>1. s \in States
  BY DEF Sound, Trimmable
<1>2. t \in States
  BY <1>1, Zenon DEF States
<1>3. SameIndexes(s, t) /\ SameSlots(s, t) /\ SameGesture(s, t)
  BY <1>1, SMT DEF States, SameIndexes, SameSlots, SameGesture
<1>4. t.timer = TRUE
  BY <1>1, Zenon DEF States
<1> HIDE DEF t
<1>5. Sound(t) /\ Kept(s, t)
  BY <1>2, <1>3, SameIndexesSound, SameSlotsKept
<1>6. /\ Sound(a) /\ a.active = s.active /\ Kept(s, a)
      /\ a.tracks = {} /\ SameGesture(s, a) /\ a.timer = s.timer
  BY StillTracksSound
<1> HIDE DEF a
<1>7. /\ Sound(u) /\ Kept(a, u) /\ Unveiled(a, u)
      /\ u.timer <=> a.timer /\ a.tracks # {}
  BY <1>6, StopSwipeVisualSound
<1> HIDE DEF u
<1>8. Kept(s, u)
  BY <1>6, <1>7, KeptChain
<1>9. CASE s.timer \/ ~TimedMotion(s)
  <2>1. Schedule(s, ok) = s
    BY <1>9, Zenon DEF Schedule
  <2>2. Presented(s) /\ (s.timer => TimedMotion(s)) => Steady(s)
    BY <1>9, Zenon DEF Steady
  <2> QED BY <2>1, <2>2, KeptSame
<1>10. CASE ~(s.timer \/ ~TimedMotion(s)) /\ ok
  <2>1. Schedule(s, ok) = t
    BY <1>10, Zenon DEF Schedule, t
  <2>2. Presented(s) => Presented(t)
    BY <1>3 DEF Presented, Coherent, SameIndexes, SameGesture, Reserved, Previewing, Settling
  <2>3. TimedMotion(t)
    BY <1>3, <1>10 DEF SameIndexes, TimedMotion, Settling, Previewing
  <2> QED BY <1>4, <1>5, <2>1, <2>2, <2>3, Zenon DEF Steady
<1>11. CASE ~(s.timer \/ ~TimedMotion(s)) /\ ~ok
  <2>1. Schedule(s, ok) = u
    BY <1>11, Zenon DEF Schedule, u, a
  <2>2. ~Previewing(u) /\ ~TimedMotion(u)
    BY <1>6, <1>7, NoPreviewTyped DEF Unveiled, Previewing, Settling, TimedMotion
  <2>3. Presented(s) => Presented(u)
    BY <1>6, <1>7, <2>2 DEF Presented, Coherent, Unveiled, SameGesture, Reserved
  <2>4. ~u.timer
    BY <1>6, <1>7, Zenon
  <2> QED BY <1>7, <1>8, <2>1, <2>2, <2>3, <2>4, Zenon DEF Steady
<1> QED BY <1>9, <1>10, <1>11

\* An animation between existing slots has tracks on existing slots.
LEMMA StartTracksSound ==
  ASSUME NEW s, Sound(s), NEW direction \in Directions,
         NEW source \in Slots, source < s.count,
         NEW target \in Slots, target < s.count
  PROVE  LET t == StartTracks(s, source, target, direction)
         IN /\ Sound(t) /\ Kept(s, t) /\ SameGesture(s, t)
            /\ t.active = s.active /\ t.timer = s.timer
            /\ t.tracks = s.tracks \cup {source, target}
<1> DEFINE away == IF direction = "Next" THEN -1 ELSE 1
           Aim(i, g) == IF i \in s.tracks /\ s.goal[i] = g THEN s.left[i] ELSE SettleTicks
           k == s.tracks \cup {source, target}
           g == [s.goal EXCEPT ![source] = away, ![target] = 0]
           f == [s.left EXCEPT ![source] = Aim(source, away), ![target] = Aim(target, 0)]
           t == [s EXCEPT !.tracks = k, !.goal = g, !.left = f]
<1>1. s \in States
  BY DEF Sound, Trimmable
<1>2. k \in SUBSET Slots
  BY <1>1 DEF States
<1>3. g \in [Slots -> -1 .. 1]
  BY <1>1 DEF States
<1>4. SettleTicks \in 0 .. SettleTicks /\ s.left \in [Slots -> 0 .. SettleTicks]
  BY <1>1, NavigationAssumption DEF States
<1>5. Aim(source, away) \in 0 .. SettleTicks /\ Aim(target, 0) \in 0 .. SettleTicks
  BY <1>4
<1>6. f \in [Slots -> 0 .. SettleTicks]
  <2> HIDE DEF Aim, away
  <2> QED BY <1>4, <1>5
<1>7. StartTracks(s, source, target, direction) = t
  BY DEF StartTracks
<1>8. \A i \in k : i < s.count
  BY DEF Sound, IndexesExist
<1> HIDE DEF k, g, f
<1>9. t \in States
  BY <1>1, <1>2, <1>3, <1>6, Zenon DEF States
<1>10. /\ t.count = s.count /\ t.active = s.active /\ t.last = s.last /\ t.home = s.home
       /\ t.popup = s.popup /\ t.launch = s.launch /\ t.tracks = k
       /\ t.preview = s.preview /\ t.stream = s.stream
  BY <1>1, SMT DEF States
<1>11. SameSlots(s, t) /\ SameGesture(s, t) /\ t.timer = s.timer
  BY <1>1, SMT DEF States, SameSlots, SameGesture
<1> HIDE DEF t
<1>12. Sound(t)
  BY <1>8, <1>9, <1>10 DEF Sound, Trimmable, Anchored, IndexesExist, Reserved, Previewing
<1> QED BY <1>7, <1>10, <1>11, <1>12, SameSlotsKept DEF k

\* start_workspace_motion() between existing slots.
LEMMA StartMotionSound ==
  ASSUME NEW s, Sound(s), NEW direction \in Directions, NEW ok \in BOOLEAN,
         NEW source \in Slots, source < s.count,
         NEW target \in Slots, target < s.count
  PROVE  LET t == StartMotion(s, source, target, direction, ok)
         IN /\ Sound(t) /\ Kept(s, t)
            /\ Steady(s) /\ ~Reserved(s) /\ ~Previewing(s) => Steady(t)
<1> DEFINE a == StartTracks(s, source, target, direction)
<1>1. /\ Sound(a) /\ Kept(s, a) /\ SameGesture(s, a)
      /\ a.active = s.active /\ a.timer = s.timer
      /\ a.tracks = s.tracks \cup {source, target}
  BY StartTracksSound
<1>2. StartMotion(s, source, target, direction, ok)
        = IF MotionBlocked(s) THEN s ELSE Schedule(a, ok)
  BY DEF StartMotion
<1> HIDE DEF a
<1>3. /\ Sound(Schedule(a, ok)) /\ Kept(s, Schedule(a, ok))
      /\ Presented(a) /\ (a.timer => TimedMotion(a)) => Steady(Schedule(a, ok))
  BY <1>1, ScheduleSound, KeptChain
<1>4. ASSUME Steady(s), ~Reserved(s), ~Previewing(s)
      PROVE  Presented(a) /\ TimedMotion(a)
  BY <1>1, <1>4 DEF Steady, Presented, Coherent, SameGesture, TimedMotion,
                    Reserved, Previewing, Settling
<1> QED BY <1>2, <1>3, <1>4, KeptSame

\* Advancing an animation only drops tracks.
LEMMA AdvanceTracksSound ==
  ASSUME NEW s, Sound(s), NEW d \in Nat
  PROVE  LET t == AdvanceTracks(s, d)
         IN /\ Sound(t) /\ Kept(s, t) /\ SameGesture(s, t) /\ t.active = s.active
            /\ t.timer = s.timer /\ t.tracks \subseteq s.tracks
<1> DEFINE left(i) == Max({0, s.left[i] - d})
           k == {i \in s.tracks : i = s.active \/ left(i) > 0}
           g == [i \in Slots |-> IF i \in k THEN s.goal[i] ELSE 0]
           f == [i \in Slots |-> IF i \in k THEN left(i) ELSE 0]
           t == [s EXCEPT !.tracks = k, !.goal = g, !.left = f]
<1>1. s \in States
  BY DEF Sound, Trimmable
<1>2. \A i \in Slots : left(i) \in 0 .. SettleTicks
  <2>1. SUFFICES ASSUME NEW i \in Slots PROVE left(i) \in 0 .. SettleTicks
    OBVIOUS
  <2>2. s.left[i] \in 0 .. SettleTicks /\ SettleTicks \in Nat
    BY <1>1, NavigationAssumption DEF States
  <2>3. s.left[i] - d <= s.left[i] /\ s.left[i] - d \in Int
    BY <2>2
  <2>4. Max({0, s.left[i] - d}) = IF 0 <= s.left[i] - d THEN s.left[i] - d ELSE 0
    <3> DEFINE x == s.left[i] - d
    <3>1. x \in Int
      BY <2>3
    <3> HIDE DEF x
    <3>2. Max({0, x}) = IF 0 <= x THEN x ELSE 0
      BY <3>1 DEF Max
    <3> QED BY <3>2 DEF x
  <2> QED BY <2>2, <2>3, <2>4
<1> HIDE DEF left
<1>3. k \in SUBSET Slots /\ k \subseteq s.tracks
  BY <1>1 DEF States
<1>4. g \in [Slots -> -1 .. 1]
  BY <1>1 DEF States
<1>5. f \in [Slots -> 0 .. SettleTicks]
  BY <1>2, NavigationAssumption
<1>6. AdvanceTracks(s, d) = IF \A i \in k : left(i) = 0 THEN StillTracks(s) ELSE t
  BY DEF AdvanceTracks, left
<1> HIDE DEF k, g, f
<1>7. t \in States
  BY <1>1, <1>3, <1>4, <1>5, Zenon DEF States
<1>8. /\ t.count = s.count /\ t.active = s.active /\ t.last = s.last /\ t.home = s.home
      /\ t.popup = s.popup /\ t.launch = s.launch /\ t.tracks = k
      /\ t.preview = s.preview /\ t.stream = s.stream
  BY <1>1, SMT DEF States
<1>9. SameSlots(s, t) /\ SameGesture(s, t) /\ t.timer = s.timer
  BY <1>1, SMT DEF States, SameSlots, SameGesture
<1> HIDE DEF t
<1>10. Sound(t)
  BY <1>3, <1>7, <1>8 DEF Sound, Trimmable, Anchored, IndexesExist, Reserved, Previewing
<1>11. /\ Sound(StillTracks(s)) /\ StillTracks(s).active = s.active
       /\ Kept(s, StillTracks(s)) /\ StillTracks(s).tracks = {}
       /\ SameGesture(s, StillTracks(s)) /\ StillTracks(s).timer = s.timer
  BY StillTracksSound
<1>12. Kept(s, t)
  BY <1>9, SameSlotsKept
<1> QED BY <1>3, <1>6, <1>8, <1>9, <1>10, <1>11, <1>12

\* Advancing a settling preview may end it, which trims.
LEMMA AdvanceSettleSound ==
  ASSUME NEW s, Sound(s), NEW d \in Nat \ {0}
  PROVE  LET t == AdvanceSettle(s, d)
         IN /\ Sound(t) /\ Kept(s, t) /\ t.timer = s.timer
            /\ Presented(s) => Presented(t)
<1> DEFINE p == [s.preview EXCEPT !.left = @ - d]
           t == WithPreview(s, p, s.previewDevice)
<1>1. s \in States
  BY DEF Sound, Trimmable
<1>2. CASE Settling(s) /\ s.preview.left > d
  <2>1. /\ p \in Previews
        /\ p.source = s.preview.source /\ p.target = s.preview.target
        /\ p.left >= 0 /\ s.preview.left >= 0
    BY <1>1, <1>2, NavigationAssumption DEF States, Previews
  <2>2. s.previewDevice \in Devices \cup {NoDevice}
    BY <1>1 DEF States
  <2>3. p.source # NoSlot => p.target # NoSlot
    BY <2>1 DEF Sound, Trimmable, Anchored, Previewing
  <2>4. p.source < s.count /\ p.target < s.count
    BY <2>1 DEF Sound, IndexesExist
  <2>5. [s EXCEPT !.preview.left = @ - d] = t
    BY <1>1, Zenon DEF States, WithPreview
  <2> HIDE DEF p
  <2>6. /\ Sound(t) /\ Kept(s, t) /\ t.active = s.active /\ t.stream = s.stream
        /\ t.preview = p /\ t.previewDevice = s.previewDevice
        /\ t.tracks = s.tracks /\ t.timer = s.timer /\ t.clientSwipe = s.clientSwipe
    BY <2>1, <2>2, <2>3, <2>4, PreviewTrimmable
  <2> HIDE DEF t
  <2>7. Presented(s) => Presented(t)
    BY <2>1, <2>6 DEF Presented, Coherent, Reserved, Previewing, Settling
  <2>8. AdvanceSettle(s, d) = t
    BY <1>2, <2>5 DEF AdvanceSettle
  <2> QED BY <2>6, <2>7, <2>8
<1>3. CASE Settling(s) /\ ~(s.preview.left > d)
  <2> DEFINE h == [s EXCEPT !.preview = NoPreview, !.previewDevice = NoDevice]
  <2>1. /\ Sound(h) /\ Kept(s, h) /\ Unveiled(s, h) /\ h.timer = s.timer
    BY HiddenSound DEF WithPreview
  <2>2. AdvanceSettle(s, d) = Trim(h)
    BY <1>3 DEF AdvanceSettle
  <2> HIDE DEF h
  <2>3. /\ Sound(Trim(h)) /\ Kept(h, Trim(h)) /\ SameMotion(h, Trim(h))
        /\ Trim(h).active = h.active
    BY <2>1, TrimSound DEF Sound
  <2>4. Kept(s, Trim(h)) /\ Unveiled(s, Trim(h)) /\ Trim(h).timer = s.timer
    BY <2>1, <2>3, KeptChain DEF Unveiled, SameMotion, SameGesture
  <2>5. ~Previewing(Trim(h))
    BY <2>4, NoPreviewTyped DEF Unveiled, Previewing
  <2>6. Presented(s) => Presented(Trim(h))
    BY <2>4, <2>5 DEF Presented, Coherent, Unveiled, Reserved
  <2> QED BY <2>2, <2>3, <2>4, <2>6
<1>4. CASE ~Settling(s)
  BY <1>4, KeptSame DEF AdvanceSettle
<1> QED BY <1>2, <1>3, <1>4

-----------------------------------------------------------------------------
(* The methods of struct Villain: switching                                *)

\* Releasing the pointer buttons changes no index.
LEMMA ReleaseButtonsSound ==
  ASSUME NEW s, Sound(s)
  PROVE  /\ Sound(ReleaseButtons(s))
         /\ ReleaseButtons(s).active = s.active /\ ReleaseButtons(s).home = s.home
         /\ Kept(s, ReleaseButtons(s)) /\ SameMotion(s, ReleaseButtons(s))
<1> DEFINE b == IF s.barrier \in {"grabbed", "layerGrab"} THEN "none" ELSE s.barrier
           t == [s EXCEPT !.barrier = b]
<1>1. s \in States
  BY DEF Sound, Trimmable
<1>2. b \in Barriers
  BY <1>1, Zenon DEF States, Barriers
<1> HIDE DEF b
<1>3. t \in States
  BY <1>1, <1>2, Zenon DEF States
<1>4. SameIndexes(s, t)
  BY <1>1, SMT DEF States, SameIndexes
<1>5. SameSlots(s, t) /\ SameMotion(s, t)
  BY <1>1, SMT DEF States, SameSlots, SameMotion, SameGesture
<1> HIDE DEF t
<1>6. Sound(t) /\ t.active = s.active /\ t.home = s.home
  BY <1>3, <1>4, SameIndexesSound DEF SameIndexes
<1> QED BY <1>5, <1>6, SameSlotsKept DEF ReleaseButtons, t, b

\* Laying out marks the state for publication and changes no index.
LEMMA RelayoutSound ==
  ASSUME NEW s, Sound(s)
  PROVE  /\ Sound(Relayout(s))
         /\ Relayout(s).active = s.active /\ Relayout(s).home = s.home
         /\ Relayout(s).count = s.count /\ Relayout(s).last = s.last
         /\ Kept(s, Relayout(s)) /\ SameMotion(s, Relayout(s)) /\ Relayout(s).dirty
         /\ TailKept(s) => TailKept(Relayout(s))
         /\ Relayout(s).fresh = s.fresh
<1> DEFINE t == [s EXCEPT !.dirty = TRUE]
<1>1. s \in States
  BY DEF Sound, Trimmable
<1>2. t \in States
  BY <1>1, Zenon DEF States
<1>3. SameIndexes(s, t)
  BY <1>1, SMT DEF States, SameIndexes
<1>4. SameMotion(s, t) /\ t.predefined = s.predefined /\ t.fresh = s.fresh
  BY <1>1, SMT DEF States, SameMotion, SameGesture
<1>5. t.dirty
  BY <1>1, Zenon DEF States
<1> HIDE DEF t
<1>6. Sound(t)
  BY <1>2, <1>3, SameIndexesSound
<1>7. Tail(s, t) /\ Shelters(s, t)
  BY <1>3, <1>4 DEF SameIndexes, Tail, TailKept, TailAfter, Shelters
<1>8. Kept(s, t)
  BY <1>5, <1>7, Zenon DEF Kept, Reports
<1> QED BY <1>3, <1>4, <1>5, <1>6, <1>7, <1>8 DEF Relayout, t, SameIndexes, Tail

\* Switching makes room for the slot, activates it and remembers the one left.
LEMMA SwitchImmediateSound ==
  ASSUME NEW s, Sound(s), NEW i \in Nat
  PROVE  /\ Sound(SwitchImmediate(s, i))
         /\ CanEnsure(i) =>
              /\ SwitchImmediate(s, i).active = i
              /\ s.active < SwitchImmediate(s, i).count
              /\ Shelters(s, SwitchImmediate(s, i)) /\ SwitchImmediate(s, i).dirty
              /\ SameMotion(CancelSwipe(s), SwitchImmediate(s, i))
         /\ ~CanEnsure(i) => SwitchImmediate(s, i) = CancelSwipe(s)
<1>1. CASE ~CanEnsure(i)
  BY <1>1, CancelSwipeSound DEF SwitchImmediate
<1>2. CASE CanEnsure(i)
  <2>1. i \in Slots
    BY <1>2, MaxWorkspacesAssumption DEF CanEnsure, Slots
  <2> DEFINE e == Ensure(CancelSwipe(s), i)
             b == IF e.barrier = "grabbed" THEN "none" ELSE e.barrier
             l == IF i # s.active THEN s.active ELSE e.last
             t == [e EXCEPT !.barrier = b, !.last = l, !.active = i]
  <2>2. /\ Sound(e) /\ i < e.count /\ ~Reserved(e) /\ e.active = s.active
        /\ Shelters(s, e) /\ SameMotion(CancelSwipe(s), e)
    BY <2>1, CancelSwipeSound, EnsureSound DEF Reserved, Kept, Shelters
  <2>3. SwitchImmediate(s, i) = Relayout(t)
    BY <1>2 DEF SwitchImmediate
  <2>4. s.active \in Slots
    BY DEF Sound, Trimmable, States
  <2> HIDE DEF e
  <2>5. e \in States
    BY <2>2 DEF Sound, Trimmable
  <2>6. b \in Barriers
    BY <2>5, Zenon DEF States, Barriers
  <2>7. l \in Slots \cup {NoSlot} /\ l < e.count /\ (i # s.active => l = s.active)
    BY <2>2, <2>4, <2>5 DEF Sound, IndexesExist, States
  <2> HIDE DEF b, l
  <2>8. t \in States
    BY <2>1, <2>5, <2>6, <2>7, Zenon DEF States
  <2>9. /\ t.count = e.count /\ t.active = i /\ t.last = l /\ t.home = e.home
        /\ t.popup = e.popup /\ t.launch = e.launch /\ t.tracks = e.tracks
        /\ t.preview = e.preview /\ t.stream = e.stream
    BY <2>5, SMT DEF States
  <2>10. SameMotion(e, t)
    BY <2>5, SMT DEF States, SameMotion, SameGesture
  <2> HIDE DEF t
  <2>11. Sound(t) /\ s.active < t.count
    BY <2>2, <2>7, <2>8, <2>9
       DEF Sound, Trimmable, Anchored, IndexesExist, Reserved, Previewing
  <2>12. /\ Sound(Relayout(t)) /\ Relayout(t).active = t.active
         /\ Relayout(t).count = t.count /\ Relayout(t).home = t.home
         /\ SameMotion(t, Relayout(t)) /\ Relayout(t).dirty
    BY <2>11, RelayoutSound
  <2>13. Shelters(s, Relayout(t)) /\ SameMotion(CancelSwipe(s), Relayout(t))
    BY <2>2, <2>9, <2>10, <2>12 DEF Shelters, SameMotion, SameGesture
  <2> QED BY <1>2, <2>3, <2>9, <2>11, <2>12, <2>13
<1> QED BY <1>1, <1>2

\* After a switch nothing is shown but an animation that was there before.
LEMMA SwitchImmediateSteady ==
  ASSUME NEW s, Sound(s), Steady(s), NEW i \in Nat
  PROVE  /\ Steady(SwitchImmediate(s, i))
         /\ ~Reserved(SwitchImmediate(s, i)) /\ ~Previewing(SwitchImmediate(s, i))
<1> DEFINE c == CancelSwipe(s)
           t == SwitchImmediate(s, i)
<1>1. Steady(c) /\ ~Reserved(c) /\ Cancelled(s, c)
  BY CancelSwipeSound, CancelSwipeSteady
<1>2. ~Previewing(c)
  BY <1>1, NoPreviewTyped DEF Cancelled, Previewing
<1>3. t = c \/ SameMotion(c, t)
  BY SwitchImmediateSound
<1> HIDE DEF c, t
<1>4. ASSUME SameMotion(c, t) PROVE Steady(t) /\ ~Reserved(t) /\ ~Previewing(t)
  BY <1>1, <1>2, <1>4 DEF Steady, Presented, Coherent, SameMotion, SameGesture,
                          TimedMotion, Settling, Previewing, Reserved
<1> QED BY <1>1, <1>2, <1>3, <1>4 DEF t

\* switch_workspace_direction(): the slot is ensured, survives the end of a
\* swipe, becomes the active one, and may then be animated.
LEMMA SwitchDirectionSound ==
  ASSUME NEW s, Sound(s), NEW i \in Nat, NEW direction \in Directions, NEW ok \in BOOLEAN
  PROVE  LET t == SwitchDirection(s, i, direction, ok)
         IN /\ Sound(t) /\ Kept(s, t) /\ (Steady(s) => Steady(t))
            /\ CanEnsure(i) => t.dirty
<1>1. CASE ~CanEnsure(i)
  BY <1>1, KeptSame DEF SwitchDirection
<1>2. CASE CanEnsure(i)
  <2> DEFINE e == Ensure(s, i)
             t == SwitchImmediate(e, i)
             x == IF s.active = i THEN t ELSE StartMotion(t, s.active, i, direction, ok)
             u == Trim(x)
  <2>1. i \in Slots /\ s.active \in Slots
    BY <1>2, MaxWorkspacesAssumption
       DEF CanEnsure, Slots, Sound, Trimmable, States
  <2>2. /\ Sound(e) /\ e.home = s.home /\ e.active = s.active /\ SameMotion(s, e)
    BY <2>1, EnsureSound
  <2>3. SwitchDirection(s, i, direction, ok) = u
    BY <1>2 DEF SwitchDirection
  <2> HIDE DEF e
  <2>4. /\ Sound(t) /\ t.active = i /\ s.active < t.count
        /\ Shelters(e, t) /\ t.dirty
    BY <1>2, <2>2, SwitchImmediateSound
  <2>5. i < t.count
    BY <2>4 DEF Sound, IndexesExist
  <2>6. Steady(s) => Steady(t) /\ ~Reserved(t) /\ ~Previewing(t)
    BY <2>2, SameMotionSteady, SwitchImmediateSteady
  <2> HIDE DEF t
  <2>7. /\ Sound(x) /\ Kept(t, x)
        /\ Steady(t) /\ ~Reserved(t) /\ ~Previewing(t) => Steady(x)
    BY <2>1, <2>4, <2>5, StartMotionSound, KeptSame
  <2> HIDE DEF x
  <2>8. /\ Sound(u) /\ TailKept(u) /\ Kept(x, u)
        /\ SameMotion(x, u) /\ u.active = x.active
    BY <2>7, TrimSound DEF Sound
  <2> HIDE DEF u
  <2>9. Shelters(s, u)
    BY <2>2, <2>4, <2>7, <2>8 DEF Kept, Shelters
  <2>10. u.dirty
    BY <2>4, <2>7, <2>8, Zenon DEF Kept, Reports
  <2>11. Kept(s, u)
    BY <2>8, <2>9, <2>10, KeptMarked
  <2>12. Steady(s) => Steady(u)
    BY <2>6, <2>7, <2>8, SameMotionSteady
  <2> QED BY <2>3, <2>8, <2>10, <2>11, <2>12
<1> QED BY <1>1, <1>2

\* switch_workspace() to any slot.
LEMMA SwitchSound ==
  ASSUME NEW s, Sound(s), NEW i \in Nat, NEW ok \in BOOLEAN
  PROVE  LET t == Switch(s, i, ok)
         IN /\ Sound(t) /\ Kept(s, t) /\ (Steady(s) => Steady(t))
            /\ CanEnsure(i) => t.dirty
BY SwitchDirectionSound DEF Switch, Directions

\* workspace_target() is a number or absent; that it may be a slot the limit
\* forbids is for ensure_workspace_exists() to refuse.
LEMMA WorkspaceTargetIndex ==
  ASSUME NEW s, Sound(s), NEW source \in Slots, NEW direction \in Directions
  PROVE  LET t == WorkspaceTarget(s, source, direction)
         IN /\ t \in Nat \cup {NoSlot}
            /\ t # source
            /\ TailAfter(s, source) /\ t # NoSlot /\ CanEnsure(t) => t < s.count
<1>1. s.count \in 2 .. MaxWorkspaces /\ source \in Nat /\ s.skipEmpty \in BOOLEAN
  BY MaxWorkspacesAssumption DEF Sound, Trimmable, States, Slots
<1> DEFINE t == WorkspaceTarget(s, source, direction)
<1>2. \/ t = NoSlot
      \/ /\ t \in 0 .. s.count
         /\ IF direction = "Next" THEN t > source ELSE t < source
         /\ t < s.count \/ t = source + 1
  BY <1>1, TargetOnSide, MaxWorkspacesAssumption DEF WorkspaceTarget
<1> HIDE DEF t
<1> QED BY <1>1, <1>2, MaxWorkspacesAssumption DEF TailAfter, CanEnsure, NoSlot, t

-----------------------------------------------------------------------------
(* The methods of struct Villain: windows                                  *)

\* Popups carried to a slot are recorded with that slot.
LEMMA CarryPopupsTyped ==
  ASSUME NEW popup \in [Popups -> Placed],
         NEW F, NEW i \in Slots
  PROVE  CarryPopups(popup, F, i)
           \in [Popups -> Placed]
BY Zenon DEF CarryPopups, Placed

\* Windows and popups may be sent to any slot before a trim.
WithWindows(s, h, q, f, b) ==
  [s EXCEPT !.home = h, !.popup = q, !.fresh = f, !.dirty = b]

\* Windows and popups may be recorded on slots still to be made as long as a
\* trim or a growth follows.
LEMMA WindowsTrimmable ==
  ASSUME NEW s, Sound(s), NEW h \in [Windows -> Slots \cup {NoSlot}],
         NEW q \in [Popups -> Placed], NEW f \in SUBSET Windows, NEW b \in BOOLEAN
  PROVE  LET t == WithWindows(s, h, q, f, b)
         IN /\ Trimmable(t)
            /\ (\A w \in Windows : h[w] < s.count) /\ (\A p \in Popups : q[p].slot < s.count)
               => Sound(t)
            /\ t.predefined = s.predefined /\ t.count = s.count /\ t.active = s.active
            /\ t.home = h /\ t.popup = q /\ t.launch = s.launch /\ t.fresh = f
            /\ t.overviewVisible = s.overviewVisible /\ t.dirty = b
            /\ SameMotion(s, t)
<1> DEFINE t == WithWindows(s, h, q, f, b)
<1>1. s \in States
  BY DEF Sound, Trimmable
<1>2. t \in States
  BY <1>1, Zenon DEF States, WithWindows
<1>3. /\ t.count = s.count /\ t.active = s.active /\ t.last = s.last /\ t.home = h
      /\ t.popup = q /\ t.launch = s.launch /\ t.tracks = s.tracks
      /\ t.preview = s.preview /\ t.stream = s.stream
  BY <1>1, SMT DEF States, WithWindows
<1>4. /\ t.predefined = s.predefined /\ t.fresh = f
      /\ t.overviewVisible = s.overviewVisible /\ t.dirty = b
      /\ SameMotion(s, t)
  BY <1>1, SMT DEF States, WithWindows, SameMotion, SameGesture
<1> HIDE DEF t
<1>5. Trimmable(t)
  BY <1>2, <1>3 DEF Sound, Trimmable, Anchored, Reserved, Previewing
<1>6. (\A w \in Windows : h[w] < s.count) /\ (\A p \in Popups : q[p].slot < s.count)
        => Sound(t)
  BY <1>3, <1>5 DEF Sound, IndexesExist, Reserved
<1> QED BY <1>3, <1>4, <1>5, <1>6 DEF t

\* A trim then keeps every window where it was recorded.
LEMMA WindowsTrimmed ==
  ASSUME NEW s, Sound(s), NEW h \in [Windows -> Slots \cup {NoSlot}],
         NEW q \in [Popups -> Placed], NEW f \in SUBSET Windows, NEW b \in BOOLEAN
  PROVE  LET t == Trim(WithWindows(s, h, q, f, b))
         IN /\ Sound(t) /\ TailKept(t)
            /\ t.home = h /\ t.active = s.active /\ t.fresh = f
            /\ SameMotion(s, t) /\ (Steady(s) => Steady(t))
            /\ b => t.dirty
<1> DEFINE u == WithWindows(s, h, q, f, b)
           t == Trim(u)
<1>1. /\ Trimmable(u) /\ u.home = h /\ u.active = s.active /\ u.fresh = f
      /\ u.dirty = b /\ SameMotion(s, u)
  BY WindowsTrimmable
<1> HIDE DEF u
<1>2. /\ Sound(t) /\ TailKept(t) /\ Kept(u, t) /\ SameMotion(u, t)
      /\ t.home = u.home /\ t.active = u.active /\ t.fresh = u.fresh
  BY <1>1, TrimSound
<1> HIDE DEF t
<1>3. SameMotion(s, t) /\ t.active = s.active
  BY <1>1, <1>2 DEF SameMotion, SameGesture
<1>4. b => t.dirty
  BY <1>1, <1>2, Zenon DEF Kept, Reports
<1> QED BY <1>1, <1>2, <1>3, <1>4, SameMotionSteady DEF t, u

\* The fields that windows and popups are recorded in.
LEMMA WindowFields ==
  ASSUME NEW s, Sound(s)
  PROVE  /\ s.home \in [Windows -> Slots \cup {NoSlot}] /\ s.popup \in [Popups -> Placed]
         /\ s.fresh \in SUBSET Windows /\ s.dirty \in BOOLEAN
         /\ s.active \in Slots
BY Zenon DEF Sound, Trimmable, States

\* A new window is added to any slot and stays there.
LEMMA AddWindowSound ==
  ASSUME NEW s, Sound(s), NEW w \in Windows, NEW i \in Slots
  PROVE  LET t == AddWindow(s, w, i)
         IN /\ Sound(t) /\ Kept(s, t) /\ (Steady(s) => Steady(t))
            /\ t.home[w] = i /\ t.active = s.active /\ t.dirty
<1> DEFINE h == [s.home EXCEPT ![w] = i]
           f == s.fresh \cup {w}
           b == TRUE
           t == Trim(WithWindows(s, h, s.popup, f, b))
<1>1. /\ h \in [Windows -> Slots \cup {NoSlot}] /\ h[w] = i
      /\ \A x \in Windows : s.home[x] # NoSlot => h[x] # NoSlot
      /\ s.popup \in [Popups -> Placed] /\ f \in SUBSET Windows
  BY WindowFields, MaxWorkspacesAssumption DEF Slots, NoSlot
<1>2. [s EXCEPT !.home[w] = i, !.fresh = @ \cup {w}, !.dirty = TRUE]
        = WithWindows(s, h, s.popup, f, b)
  BY Zenon DEF WithWindows, Sound, Trimmable, States
<1>3. AddWindow(s, w, i) = t
  BY <1>2, Zenon DEF AddWindow
<1>4. b \in BOOLEAN
  OBVIOUS
<1>5. b
  OBVIOUS
<1> HIDE DEF h, f, b
<1>6. /\ Sound(t) /\ TailKept(t) /\ t.home = h /\ t.active = s.active
      /\ (Steady(s) => Steady(t)) /\ (b => t.dirty)
  BY <1>1, <1>4, WindowsTrimmed
<1> HIDE DEF t
<1>7. t.dirty
  BY <1>5, <1>6, Zenon
<1>8. Kept(s, t)
  BY <1>1, <1>6, <1>7, KeptMarked DEF Shelters
<1> QED BY <1>1, <1>3, <1>6, <1>7, <1>8

\* Pulling a window to the slot of its parent, which trims and marks the state.
LEMMA RefreshHintsSound ==
  ASSUME NEW s, Sound(s), NEW w \in Windows, s.home[w] \in Slots,
         NEW p \in Windows \cup {NoWindow}
  PROVE  LET t == RefreshHints(s, w, p)
         IN /\ Sound(t) /\ Kept(s, t) /\ (Steady(s) => Steady(t))
            /\ t.home[w] \in Slots /\ t.active = s.active /\ t.fresh = s.fresh
            /\ t = s \/ t.dirty
<1>1. CASE p = NoWindow \/ s.home[p] \in {NoSlot, s.home[w]}
  BY <1>1, KeptSame DEF RefreshHints
<1>2. CASE ~(p = NoWindow \/ s.home[p] \in {NoSlot, s.home[w]})
  <2> DEFINE h == [s.home EXCEPT ![w] = s.home[p]]
             u == WithWindows(s, h, s.popup, s.fresh, s.dirty)
             t == Trim(u)
             r == Relayout(t)
  <2>1. s.home[p] \in Slots
    BY <1>2, WindowFields
  <2>2. /\ h \in [Windows -> Slots \cup {NoSlot}] /\ h[w] \in Slots
        /\ \A x \in Windows : s.home[x] # NoSlot => h[x] # NoSlot
    BY <2>1, WindowFields, MaxWorkspacesAssumption DEF Slots, NoSlot
  <2>3. [s EXCEPT !.home[w] = s.home[p]] = u
    BY Zenon DEF WithWindows, Sound, Trimmable, States
  <2>4. RefreshHints(s, w, p) = r
    BY <1>2, <2>3, Zenon DEF RefreshHints
  <2> HIDE DEF h
  <2>5. /\ Sound(t) /\ TailKept(t) /\ t.home = h /\ t.active = s.active
        /\ t.fresh = s.fresh /\ (Steady(s) => Steady(t))
    BY <2>2, WindowFields, WindowsTrimmed
  <2> HIDE DEF t
  <2>6. /\ Sound(r) /\ TailKept(r) /\ r.home = h /\ r.active = s.active
        /\ r.fresh = s.fresh /\ (Steady(s) => Steady(r)) /\ r.dirty
    BY <2>5, RelayoutSound, SameMotionSteady
  <2> HIDE DEF r
  <2>7. Kept(s, r)
    BY <2>2, <2>6, KeptMarked DEF Shelters
  <2> QED BY <2>2, <2>4, <2>6, <2>7
<1> QED BY <1>1, <1>2

\* t keeps what s has, but need not publish that it moved a window between two
\* slots that are not active.
KeptBut(s, t, w) ==
  /\ Tail(s, t) /\ Shelters(s, t) /\ (s.dirty => t.dirty)
  /\ \/ Reports(s, t)
     \/ t.active = s.active /\ s.active \notin {s.home[w], t.home[w]}

\* Sending a new window to the slot of its rule, which makes the slot and
\* one more, trims, and may pull the window back to its parent.
LEMMA ApplyRuleSound ==
  ASSUME NEW s, Sound(s), NEW w \in Windows, s.home[w] \in Slots,
         NEW p \in Windows \cup {NoWindow}, NEW i \in Slots
  PROVE  LET t == ApplyRule(s, w, p, i)
         IN /\ Sound(t) /\ KeptBut(s, t, w) /\ (Steady(s) => Steady(t))
            /\ t.home[w] \in Slots /\ t.fresh = s.fresh
<1>1. CASE i = s.home[w] \/ ~CanEnsure(i + 1)
  BY <1>1, KeptSame DEF ApplyRule, KeptBut, Kept
<1>2. CASE ~(i = s.home[w] \/ ~CanEnsure(i + 1))
  <2> DEFINE e == Ensure(s, i + 1)
             h == [e.home EXCEPT ![w] = i]
             q == CarryPopups(e.popup, {w}, i)
             t == Trim(WithWindows(e, h, q, e.fresh, e.dirty))
             l == s.active \in {i, s.home[w]}
             u == IF l THEN Relayout(t) ELSE t
             r == RefreshHints(u, w, p)
  <2>1. i + 1 \in Slots
    BY <1>2, MaxWorkspacesAssumption DEF CanEnsure, Slots
  <2>2. /\ Sound(e) /\ e.home = s.home /\ e.active = s.active
        /\ e.dirty = s.dirty /\ e.fresh = s.fresh /\ SameMotion(s, e)
    BY <2>1, EnsureSound
  <2>3. [e EXCEPT !.home[w] = i, !.popup = CarryPopups(@, {w}, i)]
          = WithWindows(e, h, q, e.fresh, e.dirty)
    <3> HIDE DEF e
    <3> QED BY <2>2, Zenon DEF WithWindows, Sound, Trimmable, States
  <2>4. ApplyRule(s, w, p, i) = r
    BY <1>2, <2>3, Zenon DEF ApplyRule
  <2>5. /\ h \in [Windows -> Slots \cup {NoSlot}] /\ h[w] = i
        /\ \A x \in Windows : s.home[x] # NoSlot => h[x] # NoSlot
    <3> HIDE DEF e
    <3> QED BY <2>2, WindowFields, MaxWorkspacesAssumption DEF Slots, NoSlot
  <2>6. q \in [Popups -> Placed]
    <3> HIDE DEF e
    <3> QED BY <2>2, WindowFields, CarryPopupsTyped
  <2> HIDE DEF h, q, e
  <2>7. /\ Sound(t) /\ TailKept(t) /\ t.home = h /\ t.active = s.active
        /\ t.fresh = s.fresh /\ (Steady(e) => Steady(t)) /\ (s.dirty => t.dirty)
    BY <2>2, <2>5, <2>6, WindowFields, WindowsTrimmed
  <2>8. Steady(s) => Steady(t)
    BY <2>2, <2>7, SameMotionSteady
  <2> HIDE DEF t
  <2>9. /\ Sound(u) /\ TailKept(u) /\ u.home = h /\ u.active = s.active
        /\ u.fresh = s.fresh /\ (Steady(s) => Steady(u))
        /\ (s.dirty => u.dirty) /\ (l => u.dirty)
    <3>1. CASE l
      <4>1. u = Relayout(t)
        BY <3>1, Zenon
      <4>2. /\ Sound(Relayout(t)) /\ TailKept(Relayout(t)) /\ Relayout(t).home = t.home
            /\ Relayout(t).active = t.active /\ Relayout(t).fresh = t.fresh
            /\ Relayout(t).dirty /\ SameMotion(t, Relayout(t))
        BY <2>7, RelayoutSound
      <4>3. Steady(s) => Steady(Relayout(t))
        BY <2>8, <4>2, SameMotionSteady
      <4> HIDE DEF u, l
      <4> QED BY <2>7, <4>1, <4>2, <4>3, Zenon
    <3>2. CASE ~l
      <4>1. u = t
        BY <3>2, Zenon
      <4> HIDE DEF u, l
      <4> QED BY <2>7, <2>8, <3>2, <4>1, Zenon
    <3> QED BY <3>1, <3>2
  <2> HIDE DEF u
  <2>10. /\ Sound(r) /\ Kept(u, r) /\ (Steady(u) => Steady(r))
         /\ r.home[w] \in Slots /\ r.active = u.active /\ r.fresh = u.fresh
         /\ r = u \/ r.dirty
    BY <2>5, <2>9, RefreshHintsSound
  <2> HIDE DEF r
  <2>11. Tail(s, r) /\ Shelters(s, r)
    BY <2>5, <2>9, <2>10 DEF Kept, Tail, Shelters
  <2>12. s.dirty => r.dirty
    BY <2>9, <2>10, Zenon DEF Kept, Reports
  <2>13. ASSUME ~r.dirty
         PROVE  r.active = s.active /\ s.active \notin {s.home[w], r.home[w]}
    <3>1. r = u /\ ~l
      BY <2>9, <2>10, <2>13, Zenon
    <3>2. r.active = s.active /\ r.home[w] = i
      BY <2>5, <2>9, <2>10, <3>1
    <3> QED BY <3>1, <3>2
  <2>14. KeptBut(s, r, w)
    BY <2>11, <2>12, <2>13, Zenon DEF KeptBut, Reports
  <2> QED BY <2>4, <2>9, <2>10, <2>14
<1> QED BY <1>1, <1>2

\* The rule and the switch that follows the window.
LEMMA InitialFocusSound ==
  ASSUME NEW s, Sound(s), NEW w \in Windows, s.home[w] \in Slots,
         NEW p \in Windows \cup {NoWindow}, NEW i \in Slots,
         NEW follow \in BOOLEAN, NEW ok \in BOOLEAN
  PROVE  LET t == InitialFocus(s, w, p, i, follow, ok)
         IN /\ Sound(t) /\ KeptBut(s, t, w) /\ (Steady(s) => Steady(t))
            /\ Reports(s, t) \/ w \notin t.fresh
<1> DEFINE u == WithWindows(s, s.home, s.popup, s.fresh \ {w}, s.dirty)
           t == ApplyRule(u, w, p, i)
           v == Switch(t, t.home[w], ok)
<1>1. [s EXCEPT !.fresh = @ \ {w}] = u
  BY Zenon DEF WithWindows, Sound, Trimmable, States
<1>2. (\A x \in Windows : s.home[x] < s.count) /\ (\A x \in Popups : s.popup[x].slot < s.count)
  BY DEF Sound, IndexesExist
<1>3. s.fresh \ {w} \in SUBSET Windows
  BY WindowFields
<1>4. /\ Sound(u) /\ u.home = s.home /\ u.active = s.active /\ u.fresh = s.fresh \ {w}
      /\ SameMotion(s, u) /\ u.dirty = s.dirty /\ SameSlots(s, u)
  BY <1>2, <1>3, WindowFields, WindowsTrimmable DEF SameSlots
<1>5. InitialFocus(s, w, p, i, follow, ok)
        = IF t.home[w] # t.active /\ follow THEN v ELSE t
  BY <1>1, Zenon DEF InitialFocus
<1> HIDE DEF u
<1>6. /\ Sound(t) /\ KeptBut(u, t, w) /\ (Steady(u) => Steady(t))
      /\ t.home[w] \in Slots /\ t.fresh = u.fresh
  BY <1>4, ApplyRuleSound
<1> HIDE DEF t
<1>7. t.home[w] \in Nat /\ CanEnsure(t.home[w])
  BY <1>6, MaxWorkspacesAssumption DEF Slots, CanEnsure
<1>8. /\ Sound(v) /\ Kept(t, v) /\ (Steady(t) => Steady(v)) /\ v.dirty
  BY <1>6, <1>7, SwitchSound
<1> HIDE DEF v
<1>9. Kept(s, u)
  BY <1>4, SameSlotsKept
<1>10. Reports(u, t) => Reports(s, t)
  BY <1>9, Zenon DEF Kept, Reports
<1>11. KeptBut(s, t, w)
  BY <1>4, <1>6, <1>9, <1>10 DEF KeptBut, Kept, Tail, Shelters
<1>12. w \notin t.fresh
  BY <1>4, <1>6
<1>13. Tail(s, v) /\ Shelters(s, v)
  BY <1>8, <1>11 DEF Kept, KeptBut, Tail, Shelters
<1>14. Reports(s, v) /\ KeptBut(s, v, w)
  BY <1>8, <1>13, Zenon DEF Reports, KeptBut
<1>15. Steady(s) => Steady(t) /\ Steady(v)
  BY <1>4, <1>6, <1>8, SameMotionSteady
<1> QED BY <1>5, <1>6, <1>8, <1>11, <1>12, <1>14, <1>15

\* move_focused_to_workspace(): motion is cancelled, which trims, the target is
\* made, and the family is on it before the next trim.
LEMMA MoveFamilySound ==
  ASSUME NEW s, Sound(s), NEW F \in SUBSET Windows, NEW i \in Slots
  PROVE  LET t == MoveFamily(s, F, i)
         IN Sound(t) /\ Kept(s, t) /\ (Steady(s) => Steady(t))
<1> DEFINE a == CancelSwipe(s)
           c == CancelMotion(a)
           n == Ensure(c, i)
           e == ReleaseButtons(n)
           h == [w \in Windows |-> IF w \in F THEN i ELSE e.home[w]]
           q == CarryPopups(e.popup, F, i)
           u == WithWindows(e, h, q, e.fresh, e.dirty)
           t == Trim(u)
           r == Relayout(t)
<1>1. Sound(a) /\ Kept(s, a) /\ (Steady(s) => Steady(a))
  BY CancelSwipeSound, CancelSwipeSteady
<1> HIDE DEF a
<1>2. Sound(c) /\ Kept(s, c) /\ (Steady(s) => Steady(c))
  BY <1>1, CancelMotionSound, CancelMotionSteady, KeptChain
<1> HIDE DEF c
<1>3. /\ Sound(n) /\ n.home = c.home /\ n.active = c.active /\ SameMotion(c, n)
  BY <1>2, EnsureSound
<1> HIDE DEF n
<1>4. /\ Sound(e) /\ e.home = c.home /\ e.active = n.active /\ SameMotion(n, e)
  BY <1>3, ReleaseButtonsSound
<1>5. [e EXCEPT !.home = [w \in Windows |-> IF w \in F THEN i ELSE @[w]],
                !.popup = CarryPopups(@, F, i)] = u
  <2> HIDE DEF e
  <2> QED BY <1>4, Zenon DEF WithWindows, Sound, Trimmable, States
<1>6. MoveFamily(s, F, i) = IF ~CanEnsure(i) THEN c ELSE r
  BY <1>5, Zenon DEF MoveFamily, a, c, n
<1> HIDE DEF e
<1>7. h \in [Windows -> Slots \cup {NoSlot}] /\ q \in [Popups -> Placed]
  BY <1>4, WindowFields, CarryPopupsTyped
<1>8. \A x \in Windows : c.home[x] # NoSlot => h[x] # NoSlot
  BY <1>4, MaxWorkspacesAssumption DEF Slots, NoSlot
<1> HIDE DEF h, q
<1>9. Steady(s) => Steady(e)
  BY <1>2, <1>3, <1>4, SameMotionSteady
<1>10. /\ Sound(t) /\ TailKept(t) /\ t.home = h /\ (Steady(e) => Steady(t))
  BY <1>4, <1>7, WindowFields, WindowsTrimmed
<1> HIDE DEF t
<1>11. /\ Sound(r) /\ TailKept(r) /\ r.home = h /\ (Steady(t) => Steady(r)) /\ r.dirty
  BY <1>10, RelayoutSound, SameMotionSteady
<1> HIDE DEF r
<1>12. Shelters(s, r)
  BY <1>2, <1>8, <1>11 DEF Kept, Shelters
<1>13. Kept(s, r)
  BY <1>11, <1>12, KeptMarked
<1> QED BY <1>2, <1>6, <1>9, <1>10, <1>11, <1>13

-----------------------------------------------------------------------------
(* Updates that concern no slot, and the slots of children                 *)

WithFlags(s, b, v, m, d) ==
  [s EXCEPT !.barrier = b, !.overviewVisible = v, !.overviewMapped = m, !.dirty = d]

\* Barriers, the overview and the dirty flag hold no index; a snapshot shows
\* whether the overview is visible.
LEMMA FlagsSound ==
  ASSUME NEW s, Sound(s), NEW b \in Barriers, NEW v \in BOOLEAN, NEW m \in BOOLEAN,
         NEW d \in BOOLEAN
  PROVE  LET t == WithFlags(s, b, v, m, d)
         IN /\ Sound(t) /\ Tail(s, t) /\ Shelters(s, t)
            /\ SameMotion(s, t) /\ t.active = s.active /\ (d => t.dirty)
            /\ v = s.overviewVisible /\ d = s.dirty => Kept(s, t)
<1> DEFINE t == WithFlags(s, b, v, m, d)
<1>1. s \in States
  BY DEF Sound, Trimmable
<1>2. t \in States
  BY <1>1, Zenon DEF States, WithFlags
<1>3. SameIndexes(s, t)
  BY <1>1, SMT DEF States, SameIndexes, WithFlags
<1>4. /\ t.predefined = s.predefined /\ SameMotion(s, t)
      /\ v = s.overviewVisible /\ d = s.dirty => SameSlots(s, t)
  BY <1>1, SMT DEF States, SameMotion, SameGesture, SameSlots, WithFlags
<1>5. d => t.dirty
  BY <1>1, Zenon DEF States, WithFlags
<1> HIDE DEF t
<1>6. Tail(s, t) /\ Shelters(s, t) /\ t.active = s.active
  BY <1>3, <1>4 DEF SameIndexes, Tail, TailKept, TailAfter, Shelters
<1> QED BY <1>2, <1>3, <1>4, <1>5, <1>6, SameIndexesSound, SameSlotsKept DEF t

\* The types of those flags.
LEMMA FlagFields ==
  ASSUME NEW s, Sound(s)
  PROVE  /\ s.barrier \in Barriers /\ s.overviewVisible \in BOOLEAN
         /\ s.overviewMapped \in BOOLEAN /\ s.dirty \in BOOLEAN
BY Zenon DEF Sound, Trimmable, States

WithConfig(s, n, k) == [s EXCEPT !.predefined = n, !.skipEmpty = k]

\* The configuration holds no index; a trim applies it.
LEMMA ConfigSound ==
  ASSUME NEW s, Sound(s), NEW n \in PredefinedChoices, NEW k \in BOOLEAN
  PROVE  LET t == WithConfig(s, n, k)
         IN Sound(t) /\ t.home = s.home /\ t.active = s.active /\ SameMotion(s, t)
<1> DEFINE t == WithConfig(s, n, k)
<1>1. s \in States
  BY DEF Sound, Trimmable
<1>2. t \in States
  BY <1>1, Zenon DEF States, WithConfig
<1>3. SameIndexes(s, t) /\ SameMotion(s, t)
  BY <1>1, SMT DEF States, SameIndexes, SameMotion, SameGesture, WithConfig
<1> HIDE DEF t
<1> QED BY <1>2, <1>3, SameIndexesSound DEF SameIndexes, t

WithLaunch(s, l) == [s EXCEPT !.launch = l]

\* A child is recorded on an existing slot.
LEMMA LaunchSound ==
  ASSUME NEW s, Sound(s), NEW l \in [Launches -> Slots \cup {NoSlot}],
         \A c \in Launches : l[c] < s.count /\ (TailKept(s) => TailAfter(s, l[c]))
  PROVE  LET t == WithLaunch(s, l)
         IN Sound(t) /\ Kept(s, t) /\ t.active = s.active /\ SameMotion(s, t)
<1> DEFINE t == WithLaunch(s, l)
<1>1. s \in States
  BY DEF Sound, Trimmable
<1>2. t \in States
  BY <1>1, Zenon DEF States, WithLaunch
<1>3. /\ t.count = s.count /\ t.active = s.active /\ t.last = s.last /\ t.home = s.home
      /\ t.popup = s.popup /\ t.launch = l /\ t.tracks = s.tracks
      /\ t.preview = s.preview /\ t.stream = s.stream
  BY <1>1, SMT DEF States, WithLaunch
<1>4. /\ t.predefined = s.predefined /\ SameMotion(s, t)
      /\ t.overviewVisible = s.overviewVisible /\ t.dirty = s.dirty
  BY <1>1, SMT DEF States, SameMotion, SameGesture, WithLaunch
<1> HIDE DEF t
<1>5. Sound(t)
  BY <1>2, <1>3 DEF Sound, Trimmable, Anchored, IndexesExist, Reserved, Previewing
<1>6. Tail(s, t) /\ Shelters(s, t)
  BY <1>3, <1>4 DEF Tail, TailKept, TailAfter, Shelters
<1>7. Reports(s, t)
  BY <1>3, <1>4, Zenon DEF Reports, View
<1> QED BY <1>3, <1>4, <1>5, <1>6, <1>7 DEF t, Kept

-----------------------------------------------------------------------------
(* Swipes                                                                  *)

\* The types of the stream and the preview.
LEMMA StreamFields ==
  ASSUME NEW s, Sound(s)
  PROVE  /\ s.stream \in Streams /\ s.stream.source \in Slots /\ s.clientSwipe \in BOOLEAN
         /\ s.preview \in Previews /\ s.active \in Slots
         /\ s.preview.source \in Slots \cup {NoSlot}
         /\ s.preview.target \in Slots \cup {NoSlot}
         /\ s.preview.direction \in Directions /\ s.preview.wasOccupied \in BOOLEAN
<1>1. s.stream \in Streams /\ s.clientSwipe \in BOOLEAN /\ s.preview \in Previews
      /\ s.active \in Slots
  BY Zenon DEF Sound, Trimmable, States
<1> QED BY <1>1 DEF Streams, Previews

\* The stream between two swipes is a stream that nobody owns.
LEMMA IdleStreamTyped == IdleStream \in Streams /\ IdleStream.owner = "None"
BY MaxWorkspacesAssumption DEF IdleStream, Streams, Slots

\* The target of a preview exists: behind the active slot, where a reserved swipe
\* begins, there is another one as long as the limit allows.
LEMMA ShowPreviewSound ==
  ASSUME NEW s, Sound(s), TailKept(s), Reserved(s), NEW d \in Devices
  PROVE  LET t == ShowPreview(s, d)
         IN /\ Sound(t) /\ Kept(s, t)
            /\ Steady(s) /\ s.stream.device = d => Steady(t)
<1> DEFINE direction == IF s.stream.offset < 0 THEN "Next"
                        ELSE IF s.stream.offset > 0 THEN "Previous" ELSE s.preview.direction
           stable == /\ Previewing(s) /\ s.preview.source = s.stream.source
                     /\ s.preview.direction = direction
           target == IF stable THEN s.preview.target
                     ELSE WorkspaceTarget(s, s.stream.source, direction)
           was == IF stable THEN s.preview.wasOccupied ELSE target \in Occupied(s)
           p == [source |-> s.stream.source, target |-> target, direction |-> direction,
                 wasOccupied |-> was, left |-> -1]
           e == Ensure(s, target)
<1>1. direction \in Directions
  BY StreamFields DEF Directions
<1>2. /\ WorkspaceTarget(s, s.stream.source, direction) \in Nat \cup {NoSlot}
      /\ WorkspaceTarget(s, s.stream.source, direction) # s.stream.source
      /\ LET t == WorkspaceTarget(s, s.stream.source, direction)
         IN t # NoSlot /\ CanEnsure(t) => t < s.count
  <2> HIDE DEF direction
  <2>1. TailAfter(s, s.stream.source)
    BY DEF TailKept, Sound, Trimmable, Anchored
  <2> QED BY <1>1, <2>1, StreamFields, WorkspaceTargetIndex
<1>3. /\ target \in Nat \cup {NoSlot}
      /\ target # NoSlot /\ CanEnsure(target) => target < s.count
      /\ Steady(s) => target # s.stream.source
  <2> HIDE DEF direction
  <2>1. CASE stable
    <3>1. s.preview.target \in Nat \cup {NoSlot} /\ s.preview.target < s.count
      BY StreamFields DEF Slots, Sound, IndexesExist
    <3>2. Steady(s) => s.preview.target # s.stream.source
      BY <2>1 DEF Steady, Presented, Coherent
    <3> QED BY <2>1, <3>1, <3>2
  <2>2. CASE ~stable
    <3> HIDE DEF stable
    <3> QED BY <1>2, <2>2
  <2> QED BY <2>1, <2>2
<1>4. was \in BOOLEAN
  <2> HIDE DEF stable, target
  <2>1. s.preview.wasOccupied \in BOOLEAN
    BY StreamFields
  <2>2. (target \in Occupied(s)) \in BOOLEAN
    OBVIOUS
  <2> QED BY <2>1, <2>2, Zenon
<1>5. ShowPreview(s, d) = IF target = NoSlot \/ ~CanEnsure(target) THEN StopSwipeVisual(s)
                          ELSE [e EXCEPT !.previewDevice = d, !.preview = p]
  BY DEF ShowPreview
<1> HIDE DEF direction, stable, was, target
<1>6. CASE target = NoSlot \/ ~CanEnsure(target)
  BY <1>5, <1>6, StopSwipeVisualSound, StopSwipeVisualSteady
<1>7. CASE ~(target = NoSlot \/ ~CanEnsure(target))
  <2> DEFINE t == WithPreview(s, p, d)
  <2>1. target \in Slots /\ target < s.count /\ target # NoSlot
    BY <1>3, <1>7, MaxWorkspacesAssumption DEF CanEnsure, Slots
  <2>2. e = s
    BY <2>1, EnsureSound
  <2>3. s.stream.source \in Slots
    BY StreamFields
  <2>4. -1 \in -1 .. SettleTicks
    BY NavigationAssumption
  <2>5. p \in Previews
    BY <1>1, <1>4, <2>1, <2>3, <2>4, Zenon DEF Previews
  <2>6. p.source = s.stream.source /\ p.target = target /\ p.left = -1
    OBVIOUS
  <2>7. s.stream.source < s.count
    BY DEF Sound, IndexesExist, Reserved
  <2>8. ShowPreview(s, d) = t
    BY <1>5, <1>7, <2>2, Zenon DEF WithPreview, Sound, Trimmable, States
  <2> HIDE DEF p
  <2>9. /\ Sound(t) /\ Kept(s, t) /\ t.active = s.active /\ t.stream = s.stream
        /\ t.preview = p /\ t.previewDevice = d /\ t.tracks = s.tracks
        /\ t.timer = s.timer /\ t.clientSwipe = s.clientSwipe
    BY <2>1, <2>5, <2>6, <2>7, PreviewTrimmable
  <2> HIDE DEF t
  <2>10. ASSUME Steady(s), s.stream.device = d PROVE Steady(t)
    <3>1. s.tracks = {} /\ ~Settling(s) /\ ~TimedMotion(s) /\ s.stream.owner = "Reserved"
      BY <2>10 DEF Steady, Presented, Coherent, TimedMotion, Settling, Reserved
    <3>2. Reserved(t) /\ Previewing(t) /\ ~Settling(t) /\ ~TimedMotion(t)
      BY <2>3, <2>6, <2>9, <3>1, MaxWorkspacesAssumption
         DEF Reserved, Previewing, Settling, TimedMotion, Slots, NoSlot
    <3>3. target # s.stream.source /\ d # NoDevice
      BY <1>3, <2>10, NavigationAssumption
    <3>4. Coherent(t)
      BY <2>1, <2>6, <2>9, <2>10, <3>1, <3>2, <3>3 DEF Steady, Presented, Coherent, Reserved
    <3>5. t.clientSwipe <=> t.stream.owner = "Client"
      BY <2>9, <2>10 DEF Steady, Presented
    <3>6. t.timer <=> TimedMotion(t)
      BY <2>9, <2>10, <3>1, <3>2, Zenon DEF Steady
    <3> QED BY <3>4, <3>5, <3>6, Zenon DEF Steady, Presented
  <2> QED BY <2>8, <2>9, <2>10
<1> QED BY <1>6, <1>7

\* s shows nothing and listens to nobody.
AtRest(s) ==
  /\ s.stream = IdleStream /\ ~s.clientSwipe /\ s.tracks = {} /\ ~s.timer

\* Starting to settle a preview that leads somewhere: its slots are in use
\* again before the trim.
LEMMA SettleSound ==
  ASSUME NEW s, Sound(s), NEW p \in Previews, p.source # NoSlot => p.target # NoSlot,
         NEW d \in Devices, NEW ok \in BOOLEAN
  PROVE  LET t == Settle(s, p, d, ok)
         IN /\ Sound(t) /\ TailKept(t) /\ Kept(s, t)
            /\ AtRest(s) /\ p.source # NoSlot /\ p.target # p.source => Steady(t)
<1> DEFINE q == [p EXCEPT !.left = SettleTicks]
           a == WithPreview(s, q, d)
           b == Trim(a)
           t == Schedule(b, ok)
<1>1. SettleTicks \in -1 .. SettleTicks /\ SettleTicks >= 0
  BY NavigationAssumption
<1>2. q \in Previews
  BY <1>1, Zenon DEF Previews
<1>3. q.source = p.source /\ q.target = p.target /\ q.left = SettleTicks
  BY DEF Previews
<1>4. [s EXCEPT !.preview = [p EXCEPT !.left = SettleTicks], !.previewDevice = d] = a
  BY Zenon DEF WithPreview
<1>5. Settle(s, p, d, ok) = t
  BY <1>4, Zenon DEF Settle
<1> HIDE DEF q
<1>6. /\ Trimmable(a) /\ Kept(s, a) /\ a.stream = s.stream /\ a.preview = q
      /\ a.previewDevice = d /\ a.tracks = s.tracks /\ a.timer = s.timer
      /\ a.clientSwipe = s.clientSwipe
  BY <1>2, <1>3, PreviewTrimmable
<1> HIDE DEF a
<1>7. Sound(b) /\ TailKept(b) /\ Kept(a, b) /\ SameMotion(a, b)
  BY <1>6, TrimSound
<1> HIDE DEF b
<1>8. /\ Sound(t) /\ Kept(b, t)
      /\ Presented(b) /\ (b.timer => TimedMotion(b)) => Steady(t)
  BY <1>7, ScheduleSound
<1> HIDE DEF t
<1>9. TailKept(t) /\ Kept(s, t)
  BY <1>6, <1>7, <1>8, KeptChain DEF Kept, Tail
<1>10. ASSUME AtRest(s), p.source # NoSlot, p.target # p.source
       PROVE  Presented(b) /\ (b.timer => TimedMotion(b))
  <2>1. Previewing(b) /\ Settling(b) /\ b.preview = q /\ b.previewDevice = d
    BY <1>1, <1>3, <1>6, <1>7, <1>10 DEF SameMotion, SameGesture, Previewing, Settling
  <2>2. /\ b.stream = IdleStream /\ ~b.clientSwipe /\ b.tracks = {} /\ ~b.timer
    BY <1>6, <1>7, <1>10, Zenon DEF SameMotion, SameGesture, AtRest
  <2>3. IdleStream.owner = "None" /\ IdleStream.device = NoDevice /\ d # NoDevice
    BY NavigationAssumption DEF IdleStream
  <2>4. Coherent(b)
    BY <1>3, <1>10, <2>1, <2>2, <2>3 DEF Coherent, Reserved
  <2>5. b.stream.owner # "Client"
    BY <2>2, <2>3
  <2> QED BY <2>2, <2>4, <2>5, Zenon DEF Presented
<1> QED BY <1>5, <1>8, <1>9, <1>10

-----------------------------------------------------------------------------
(* What holds between two handlers                                         *)

\* The inductive invariant: every index in range, the tail in place, and one
\* presentation with its timer.
Held(s) == Sound(s) /\ TailKept(s) /\ Steady(s)

\* And what a handler does with it: no window is lost, and what a snapshot would show
\* differently will be published.
Handled(s, t) == Held(t) /\ Shelters(s, t) /\ Reports(s, t)

\* A chain of methods that each keep it makes a handler.
LEMMA KeptHandled ==
  ASSUME NEW s, NEW t, Held(s), Sound(t), Kept(s, t), Steady(s) => Steady(t)
  PROVE  Handled(s, t)
BY DEF Held, Handled, Kept, Tail

\* So does one that ends in a trim and marks the state.
LEMMA MarkedHandled ==
  ASSUME NEW s, NEW t, Held(s), Sound(t), TailKept(t), Shelters(s, t), t.dirty,
         Steady(s) => Steady(t)
  PROVE  Handled(s, t)
BY KeptMarked, KeptHandled

-----------------------------------------------------------------------------
(* The handlers of swipes                                                  *)

\* A movement of the fingers may cancel, show or move a preview.
LEMMA SwipeUpdateHeld ==
  ASSUME Held(villain), NEW d \in Devices, SwipeUpdate(d)
  PROVE  Handled(villain, villain')
<1> DEFINE m == MaintainSwipe(villain)
<1>1. Sound(m) /\ Kept(villain, m) /\ TailKept(m) /\ Steady(m)
  BY MaintainSwipeSound DEF Held, Kept, Tail
<1>2. CASE m.stream.device # d \/ ~Reserved(m)
  BY <1>1, <1>2, KeptHandled DEF SwipeUpdate, Become
<1>3. CASE ~(m.stream.device # d \/ ~Reserved(m))
  <2> DEFINE u(r) == [m EXCEPT !.stream.axis = r.axis, !.stream.offset = r.offset]
  <2>1. PICK r \in Recognised(m.stream) :
          villain' = IF r.offset # 0 \/ Previewing(u(r)) THEN ShowPreview(u(r), d) ELSE u(r)
    BY <1>3, Zenon DEF SwipeUpdate, Become
  <2> HIDE DEF m
  <2> DEFINE k == [m.stream EXCEPT !.axis = r.axis, !.offset = r.offset]
             t == WithStream(m, m.clientSwipe, k)
             x == ShowPreview(t, d)
  <2>2. r.axis \in {"Pending", "Horizontal", "Rejected"} /\ r.offset \in -2 .. 2
    BY Zenon DEF Recognised
  <2>3. m.stream \in Streams
    BY <1>1, StreamFields
  <2>4. k \in Streams
    BY <2>2, <2>3, Zenon DEF Streams
  <2>5. k.owner = m.stream.owner /\ k.source = m.stream.source /\ k.device = m.stream.device
    BY <2>3 DEF Streams
  <2>6. u(r) = t
    BY <1>1, Zenon DEF WithStream, Sound, Trimmable, States
  <2> HIDE DEF u
  <2>7. villain' = IF r.offset # 0 \/ Previewing(t) THEN x ELSE t
    BY <2>1, <2>6, Zenon
  <2>8. k.owner = "Reserved" => k.source = m.active
    BY <1>1, <2>5 DEF Sound, Trimmable, Anchored, Reserved
  <2> HIDE DEF k
  <2>9. /\ Sound(t) /\ Kept(m, t) /\ t.stream = k /\ t.clientSwipe = m.clientSwipe
        /\ t.active = m.active /\ t.tracks = m.tracks /\ t.timer = m.timer
        /\ t.preview = m.preview /\ t.previewDevice = m.previewDevice
    <3>1. m.clientSwipe \in BOOLEAN
      BY <1>1, StreamFields
    <3> QED BY <1>1, <2>4, <2>8, <3>1, StreamSound
  <2> HIDE DEF t
  <2>10. Reserved(t) /\ TailKept(t)
    BY <1>1, <1>3, <2>5, <2>9 DEF Reserved, Kept, Tail
  <2>11. Steady(t)
    BY <1>1, <2>5, <2>9 DEF Steady, Presented, Coherent, TimedMotion,
                            Reserved, Previewing, Settling
  <2>12. /\ Sound(x) /\ Kept(t, x) /\ (t.stream.device = d => Steady(x))
    BY <2>9, <2>10, <2>11, ShowPreviewSound
  <2> HIDE DEF x
  <2>13. t.stream.device = d
    BY <1>3, <2>5, <2>9
  <2>14. Kept(villain, t) /\ Kept(villain, x)
    BY <1>1, <2>9, <2>12, KeptChain
  <2> QED BY <2>7, <2>9, <2>11, <2>12, <2>13, <2>14, KeptHandled
<1> QED BY <1>2, <1>3

\* The end of a swipe switches or slides back, and both settle the preview.
LEMMA SwipeEndHeld ==
  ASSUME Held(villain), NEW d \in Devices, NEW cancelled \in BOOLEAN,
         SwipeEnd(d, cancelled)
  PROVE  Handled(villain, villain')
<1> DEFINE m == MaintainSwipe(villain)
           t == [m EXCEPT !.clientSwipe = FALSE, !.stream = IdleStream]
           u == [t EXCEPT !.preview = NoPreview]
           commit == m.stream.offset \in {-2, 2} /\ ~cancelled
           i == m.preview.target
           v == IF commit THEN SwitchImmediate(u, i) ELSE u
           no == FALSE
<1>1. Sound(m) /\ Kept(villain, m) /\ TailKept(m) /\ Steady(m)
  BY MaintainSwipeSound DEF Held, Kept, Tail
<1>2. CASE m.stream.device # d
  BY <1>1, <1>2, KeptHandled DEF SwipeEnd, Become
<1>3. t = WithStream(m, no, IdleStream)
  BY Zenon DEF WithStream
<1>4. no \in BOOLEAN /\ ~no
  OBVIOUS
<1>5. /\ Sound(t) /\ Kept(m, t) /\ t.stream = IdleStream /\ t.clientSwipe = no
      /\ t.tracks = m.tracks /\ t.timer = m.timer
      /\ t.preview = m.preview /\ t.previewDevice = m.previewDevice
  <2> HIDE DEF m, t, no
  <2> QED BY <1>1, <1>3, <1>4, IdleStreamTyped, StreamSound
<1>6. d # NoDevice /\ IdleStream.owner = "None" /\ IdleStream.device = NoDevice
  BY NavigationAssumption DEF IdleStream
<1>7. CASE m.stream.device = d /\ (~Reserved(m) \/ ~Previewing(m))
  <2>1. villain' = t
    BY <1>7, Zenon DEF SwipeEnd, Become
  <2> HIDE DEF m, t, no
  <2>2. ~Previewing(m)
    BY <1>1, <1>6, <1>7 DEF Steady, Presented, Coherent
  <2>3. ~Reserved(t) /\ ~Previewing(t) /\ (TimedMotion(t) <=> TimedMotion(m))
    BY <1>5, <1>6, <2>2 DEF Reserved, Previewing, TimedMotion, Settling
  <2>4. Coherent(t)
    BY <1>1, <1>5, <1>6, <2>2, <2>3 DEF Steady, Presented, Coherent
  <2>5. ~t.clientSwipe /\ t.stream.owner # "Client"
    BY <1>4, <1>5, <1>6
  <2>6. t.timer <=> TimedMotion(t)
    BY <1>1, <1>5, <2>3, Zenon DEF Steady
  <2>7. Steady(t)
    BY <2>4, <2>5, <2>6, Zenon DEF Steady, Presented
  <2>8. Kept(villain, t)
    BY <1>1, <1>5, KeptChain
  <2> QED BY <1>5, <2>1, <2>7, <2>8, KeptHandled
<1>8. CASE m.stream.device = d /\ ~(~Reserved(m) \/ ~Previewing(m))
  <2>1. PICK ok \in BOOLEAN : villain' = Settle(v, m.preview, d, ok)
    BY <1>8, Zenon DEF SwipeEnd, Become
  <2>2. u = WithPreview(t, NoPreview, t.previewDevice)
    <3> HIDE DEF t
    <3> QED BY <1>5, Zenon DEF WithPreview, Sound, Trimmable, States
  <2>3. m.tracks = {} /\ ~m.timer
    <3> HIDE DEF m
    <3>1. m.tracks = {} /\ ~TimedMotion(m)
      BY <1>1, <1>8 DEF Steady, Presented, Coherent, TimedMotion, Settling, Reserved
    <3> QED BY <1>1, <3>1, Zenon DEF Steady
  <2>4. /\ m.preview \in Previews /\ i # NoSlot /\ i \in Nat
        /\ m.preview.source # NoSlot /\ i # m.preview.source
    <3> HIDE DEF m
    <3>1. i # NoSlot /\ i # m.preview.source /\ m.preview.source # NoSlot
      BY <1>1, <1>8 DEF Steady, Presented, Coherent, Previewing
    <3> QED BY <1>1, <3>1, StreamFields DEF Slots
  <2> HIDE DEF t
  <2>5. /\ Sound(u) /\ Kept(t, u) /\ u.stream = t.stream /\ u.clientSwipe = t.clientSwipe
        /\ u.tracks = t.tracks /\ u.timer = t.timer
    <3>1. t.previewDevice \in Devices \cup {NoDevice}
      BY <1>5, Zenon DEF Sound, Trimmable, States
    <3>2. NoSlot < t.count
      BY <1>5, MaxWorkspacesAssumption DEF Sound, Trimmable, States, NoSlot
    <3> HIDE DEF u
    <3> QED BY <1>5, <2>2, <3>1, <3>2, NoPreviewTyped, PreviewTrimmable
  <2>6. AtRest(u)
    <3> HIDE DEF m, u, no
    <3> QED BY <1>4, <1>5, <2>3, <2>5, Zenon DEF AtRest
  <2>7. Kept(villain, u)
    <3> HIDE DEF m, u
    <3> QED BY <1>1, <1>5, <2>5, KeptChain
  <2> HIDE DEF m, u, no, i
  <2>8. Sound(v) /\ AtRest(v) /\ Shelters(u, v) /\ (v = u \/ v.dirty \/ Kept(u, v))
    <3>1. CASE commit
      <4> DEFINE c == CancelSwipe(u)
                 y == SwitchImmediate(u, i)
      <4>1. Sound(c) /\ Kept(u, c) /\ Cancelled(u, c)
        BY <2>5, CancelSwipeSound
      <4>2. /\ Sound(y)
            /\ \/ SameMotion(c, y) /\ Shelters(u, y) /\ y.dirty
               \/ y = c
        BY <2>4, <2>5, SwitchImmediateSound
      <4>3. AtRest(c)
        <5> HIDE DEF c
        <5>1. c.tracks = {} /\ ~c.timer /\ ~c.clientSwipe
          BY <2>6, <4>1, Zenon DEF Cancelled, AtRest
        <5>2. u.stream.owner = "None"
          BY <1>6, <2>6 DEF AtRest
        <5>3. c.stream = u.stream
          BY <2>5, <5>2, StopSwipeVisualSound DEF Unveiled, CancelSwipe, c
        <5> QED BY <2>6, <5>1, <5>3, Zenon DEF AtRest
      <4> HIDE DEF c, y
      <4>4. AtRest(y)
        BY <4>2, <4>3, Zenon DEF SameMotion, SameGesture, AtRest
      <4>5. v = y
        BY <3>1 DEF y
      <4> HIDE DEF v
      <4> QED BY <4>1, <4>2, <4>4, <4>5 DEF Kept
    <3>2. CASE ~commit
      BY <2>5, <2>6, <3>2 DEF Shelters
    <3> QED BY <3>1, <3>2
  <2> HIDE DEF v
  <2> DEFINE w == Settle(v, m.preview, d, ok)
  <2>9. Sound(w) /\ TailKept(w) /\ Kept(v, w) /\ Steady(w)
    BY <2>4, <2>8, SettleSound DEF i
  <2> HIDE DEF w
  <2>10. Shelters(villain, w)
    BY <2>7, <2>8, <2>9 DEF Kept, Shelters
  <2>11. CASE v.dirty
    <3>1. w.dirty
      BY <2>9, <2>11, Zenon DEF Kept, Reports
    <3> QED BY <2>1, <2>9, <2>10, <3>1, MarkedHandled DEF w
  <2>12. CASE v = u \/ Kept(u, v)
    <3>1. Kept(villain, w)
      BY <2>7, <2>9, <2>12, KeptChain
    <3> QED BY <2>1, <2>9, <3>1, KeptHandled DEF w
  <2> QED BY <2>8, <2>11, <2>12
<1> QED BY <1>2, <1>7, <1>8

\* A swipe begins: one reserved for switching is on the active slot.
LEMMA SwipeBeginHeld ==
  ASSUME Held(villain), NEW d \in Devices, NEW configured \in BOOLEAN,
         SwipeBegin(d, configured)
  PROVE  Handled(villain, villain')
<1> DEFINE c == CancelSwipe(villain)
           owner == IF c.barrier = "selecting" THEN "Discard"
                    ELSE IF configured /\ ~SwipeBlocked(c) THEN "Reserved" ELSE "Client"
           m == IF owner = "Reserved" THEN CancelMotion(c) ELSE c
           told == owner = "Client"
           r == [device |-> d, source |-> m.active, owner |-> owner,
                 axis |-> "Pending", offset |-> 0]
           t == WithStream(m, told, r)
<1>1. /\ Sound(c) /\ Kept(villain, c) /\ Steady(c) /\ c.preview = NoPreview
  BY CancelSwipeSound, CancelSwipeSteady DEF Held, Cancelled
<1>2. /\ owner \in {"Client", "Reserved", "Discard"} /\ told \in BOOLEAN
      /\ told <=> owner = "Client"
  <2> HIDE DEF c
  <2> QED OBVIOUS
<1>3. villain' = t
  BY Zenon DEF SwipeBegin, Become, WithStream
<1> HIDE DEF c, owner, told
<1>4. /\ Sound(m) /\ Kept(villain, m) /\ Steady(m) /\ m.preview = NoPreview
      /\ m.active \in Slots /\ (owner = "Reserved" => m.tracks = {})
  <2>1. /\ Sound(CancelMotion(c)) /\ Kept(c, CancelMotion(c)) /\ Steady(CancelMotion(c))
        /\ CancelMotion(c).preview = c.preview /\ CancelMotion(c).tracks = {}
    BY <1>1, CancelMotionSound, CancelMotionSteady DEF Stilled, SameGesture
  <2>2. Kept(villain, CancelMotion(c))
    BY <1>1, <2>1, KeptChain
  <2> QED BY <1>1, <2>1, <2>2, StreamFields
<1> HIDE DEF m
<1>5. 0 \in -2 .. 2
  OBVIOUS
<1>6. r \in Streams
  BY <1>2, <1>4, <1>5, Zenon DEF Streams
<1>7. r.source = m.active /\ r.device = d /\ r.owner = owner
  OBVIOUS
<1> HIDE DEF r
<1>8. /\ Sound(t) /\ Kept(m, t) /\ t.active = m.active /\ t.stream = r
      /\ t.clientSwipe = told /\ t.tracks = m.tracks /\ t.timer = m.timer
      /\ t.preview = m.preview /\ t.previewDevice = m.previewDevice
  BY <1>2, <1>4, <1>6, <1>7, StreamSound
<1> HIDE DEF t
<1>9. ~Previewing(t) /\ ~Previewing(m) /\ (TimedMotion(t) <=> TimedMotion(m))
  BY <1>4, <1>8, NoPreviewTyped DEF Previewing, TimedMotion, Settling
<1>10. Coherent(t)
  BY <1>2, <1>4, <1>7, <1>8, <1>9, NavigationAssumption
     DEF Steady, Presented, Coherent, Reserved
<1>11. t.clientSwipe <=> t.stream.owner = "Client"
  BY <1>2, <1>7, <1>8, Zenon
<1>12. t.timer <=> TimedMotion(t)
  BY <1>4, <1>8, <1>9, Zenon DEF Steady
<1>13. Steady(t)
  BY <1>10, <1>11, <1>12, Zenon DEF Steady, Presented
<1>14. Kept(villain, t)
  BY <1>4, <1>8, KeptChain
<1> QED BY <1>3, <1>8, <1>13, <1>14, KeptHandled

\* A touchpad is unplugged.
LEMMA DeviceRemovedHeld ==
  ASSUME Held(villain), NEW d \in Devices, DeviceRemoved(d)
  PROVE  Handled(villain, villain')
<1> DEFINE r == ReleaseButtons(villain)
           c == CancelSwipe(r)
           t == WithStream(c, c.clientSwipe, IdleStream)
<1>1. Sound(r) /\ Kept(villain, r) /\ Steady(r)
  BY ReleaseButtonsSound, SameMotionSteady DEF Held
<1> HIDE DEF r
<1>2. Sound(c) /\ Kept(villain, c) /\ Steady(c) /\ Cancelled(r, c)
  BY <1>1, CancelSwipeSound, CancelSwipeSteady, KeptChain
<1> HIDE DEF c
<1>3. [c EXCEPT !.stream = IdleStream] = t
  BY <1>2, Zenon DEF WithStream, Sound, Trimmable, States
<1>4. /\ Sound(t) /\ Kept(c, t) /\ t.stream = IdleStream /\ t.clientSwipe = c.clientSwipe
      /\ t.tracks = c.tracks /\ t.timer = c.timer
      /\ t.preview = c.preview /\ t.previewDevice = c.previewDevice
  <2>1. c.clientSwipe \in BOOLEAN
    BY <1>2, StreamFields
  <2>2. IdleStream \in Streams /\ IdleStream.owner # "Reserved"
    BY IdleStreamTyped
  <2> QED BY <1>2, <2>1, <2>2, StreamSound
<1> HIDE DEF t
<1>5. IdleStream.owner = "None" /\ IdleStream.device = NoDevice
  BY DEF IdleStream
<1>6. ~Previewing(t) /\ ~Previewing(c) /\ (TimedMotion(t) <=> TimedMotion(c)) /\ ~Reserved(t)
  BY <1>2, <1>4, <1>5, NoPreviewTyped DEF Cancelled, Previewing, TimedMotion, Settling, Reserved
<1>7. Coherent(t)
  BY <1>2, <1>4, <1>5, <1>6 DEF Steady, Presented, Coherent
<1>8. ~t.clientSwipe /\ t.stream.owner # "Client"
  <2>1. c.stream.owner # "Client"
    BY <1>2 DEF Cancelled
  <2> QED BY <1>2, <1>4, <1>5, <2>1 DEF Steady, Presented
<1>9. t.timer <=> TimedMotion(t)
  BY <1>2, <1>4, <1>6, Zenon DEF Steady
<1>10. Steady(t)
  BY <1>7, <1>8, <1>9, Zenon DEF Steady, Presented
<1>11. Kept(villain, t)
  BY <1>2, <1>4, KeptChain
<1>12. villain' \in {r, t}
  BY <1>3, Zenon DEF DeviceRemoved, Become, r, c
<1> QED BY <1>1, <1>4, <1>10, <1>11, <1>12, KeptHandled

-----------------------------------------------------------------------------
(* Windows, popups and children                                            *)

\* A new client is put on a slot.
LEMMA LaunchSlotsExist ==
  ASSUME Sound(villain) PROVE LaunchSlots \in SUBSET Slots
BY DEF Sound, Trimmable, States, LaunchSlots

\* A new toplevel.
LEMMA NewToplevelHeld ==
  ASSUME Held(villain), NEW w \in Windows, NEW p \in Windows \cup {NoWindow},
         NewToplevel(w, p)
  PROVE  Handled(villain, villain')
<1>1. PICK i \in Slots : villain' = Relayout(RefreshHints(AddWindow(villain, w, i), w, p))
  BY LaunchSlotsExist, Zenon DEF NewToplevel, Become, Held
<1> DEFINE a == AddWindow(villain, w, i)
           h == RefreshHints(a, w, p)
           r == Relayout(h)
<1>2. Sound(a) /\ Kept(villain, a) /\ Steady(a) /\ a.home[w] \in Slots
  BY AddWindowSound DEF Held
<1> HIDE DEF a
<1>3. Sound(h) /\ Kept(a, h) /\ Steady(h)
  BY <1>2, RefreshHintsSound
<1> HIDE DEF h
<1>4. Sound(r) /\ Kept(h, r) /\ Steady(r)
  BY <1>3, RelayoutSound, SameMotionSteady
<1> HIDE DEF r
<1>5. Kept(villain, r)
  BY <1>2, <1>3, <1>4, KeptChain
<1> QED BY <1>1, <1>4, <1>5, KeptHandled DEF a, h, r

\* A new X11 window, ruled and focused at once; adding it has marked the state.
LEMMA NewX11WindowHeld ==
  ASSUME Held(villain), NEW w \in Windows, NEW p \in Windows \cup {NoWindow},
         NewX11Window(w, p)
  PROVE  Handled(villain, villain')
<1>1. PICK at \in Slots, i \in Slots, follow \in BOOLEAN, ok \in BOOLEAN :
        villain' = InitialFocus(Relayout(RefreshHints(AddWindow(villain, w, at), w, p)),
                                w, p, i, follow, ok)
  BY LaunchSlotsExist, Zenon DEF NewX11Window, Become, Held
<1> DEFINE a == AddWindow(villain, w, at)
           h == RefreshHints(a, w, p)
           r == Relayout(h)
           t == InitialFocus(r, w, p, i, follow, ok)
<1>2. Sound(a) /\ Kept(villain, a) /\ Steady(a) /\ a.home[w] \in Slots
  BY AddWindowSound DEF Held
<1> HIDE DEF a
<1>3. Sound(h) /\ Kept(a, h) /\ Steady(h) /\ h.home[w] \in Slots
  BY <1>2, RefreshHintsSound
<1> HIDE DEF h
<1>4. Sound(r) /\ Kept(h, r) /\ Steady(r) /\ r.dirty /\ r.home[w] \in Slots
  BY <1>3, RelayoutSound, SameMotionSteady
<1> HIDE DEF r
<1>5. Kept(villain, r)
  BY <1>2, <1>3, <1>4, KeptChain
<1>6. Sound(t) /\ KeptBut(r, t, w) /\ (Steady(r) => Steady(t))
  BY <1>4, InitialFocusSound
<1> HIDE DEF t
<1>7. t.dirty
  BY <1>4, <1>6, Zenon DEF KeptBut
<1>8. TailKept(t) /\ Shelters(villain, t)
  BY <1>5, <1>6 DEF Kept, KeptBut, Tail, Shelters, Held
<1> QED BY <1>1, <1>4, <1>6, <1>7, <1>8, MarkedHandled DEF a, h, r, t

\* A commit of a window, its first included. The rule of a window that opens may
\* move it between two slots that are not active without marking the state.
LEMMA CommitWindowHeld ==
  ASSUME Held(villain), NEW w \in Windows, NEW p \in Windows \cup {NoWindow},
         CommitWindow(w, p)
  PROVE  /\ Held(villain') /\ Shelters(villain, villain')
         /\ Reports(villain, villain') \/ SilentRuleMove
<1> DEFINE s == RefreshHints(villain, w, p)
<1>1. villain.home[w] \in Slots
  BY WindowFields DEF CommitWindow, Held
<1>2. /\ Sound(s) /\ Kept(villain, s) /\ Steady(s) /\ s.home[w] \in Slots
      /\ s = villain \/ s.dirty
  BY <1>1, RefreshHintsSound DEF Held
<1>3. \/ villain' = s
      \/ /\ w \in villain.fresh
         /\ \E i \in Slots, follow \in BOOLEAN, ok \in BOOLEAN :
              villain' = InitialFocus(s, w, p, i, follow, ok)
  BY Zenon DEF CommitWindow, Become
<1> HIDE DEF s
<1>4. CASE villain' = s
  BY <1>2, <1>4, KeptHandled DEF Handled
<1>5. ASSUME w \in villain.fresh, NEW i \in Slots, NEW follow \in BOOLEAN, NEW ok \in BOOLEAN,
             villain' = InitialFocus(s, w, p, i, follow, ok)
      PROVE  /\ Held(villain') /\ Shelters(villain, villain')
             /\ Reports(villain, villain') \/ SilentRuleMove
  <2> DEFINE t == InitialFocus(s, w, p, i, follow, ok)
  <2>1. /\ Sound(t) /\ KeptBut(s, t, w) /\ Steady(t)
        /\ Reports(s, t) \/ w \notin t.fresh
    BY <1>2, InitialFocusSound
  <2>2. villain' = t
    BY <1>5
  <2> HIDE DEF t
  <2>3. Held(t) /\ Shelters(villain, t)
    BY <1>2, <2>1 DEF Kept, KeptBut, Tail, Shelters, Held
  <2>4. CASE Reports(s, t)
    <3>1. Reports(villain, t)
      BY <1>2, <2>4, Zenon DEF Kept, Reports
    <3> QED BY <2>2, <2>3, <3>1
  <2>5. CASE s.dirty
    <3>1. t.dirty
      BY <2>1, <2>5, Zenon DEF KeptBut
    <3>2. Reports(villain, t)
      BY <3>1, Zenon DEF Reports
    <3> QED BY <2>2, <2>3, <3>2
  <2>6. CASE ~Reports(s, t) /\ s = villain
    <3>1. w \notin t.fresh
      BY <2>1, <2>6
    <3>2. t.active = villain.active /\ villain.active \notin {villain.home[w], t.home[w]}
      BY <2>1, <2>6 DEF KeptBut
    <3>3. w \notin villain'.fresh /\ villain'.active = villain.active
          /\ villain.active \notin {villain.home[w], villain'.home[w]}
      BY <2>2, <3>1, <3>2
    <3>4. SilentRuleMove
      BY <1>5, <3>3 DEF SilentRuleMove
    <3> QED BY <2>2, <2>3, <3>4
  <2> QED BY <1>2, <2>4, <2>5, <2>6
<1> QED BY <1>3, <1>4, <1>5

\* A window that closes is the only one that is lost.
LEMMA RemoveWindowHeld ==
  ASSUME Held(villain), NEW w \in Windows, RemoveWindow(w)
  PROVE  /\ Held(villain') /\ Reports(villain, villain')
         /\ \A x \in Windows \ {w} : villain'.home[x] = villain.home[x]
<1>1. PICK t \in {villain, ReleaseButtons(villain)} :
        villain' = Relayout(Trim([t EXCEPT !.home[w] = NoSlot, !.fresh = @ \ {w}]))
  BY DEF RemoveWindow, Become
<1>2. Sound(t) /\ t.home = villain.home /\ Steady(t)
  BY ReleaseButtonsSound, SameMotionSteady DEF Held
<1> DEFINE h == [t.home EXCEPT ![w] = NoSlot]
           f == t.fresh \ {w}
           u == Trim(WithWindows(t, h, t.popup, f, t.dirty))
           r == Relayout(u)
<1>3. /\ h \in [Windows -> Slots \cup {NoSlot}] /\ f \in SUBSET Windows
      /\ \A x \in Windows \ {w} : h[x] = villain.home[x]
  BY <1>2, WindowFields
<1>4. [t EXCEPT !.home[w] = NoSlot, !.fresh = @ \ {w}]
        = WithWindows(t, h, t.popup, f, t.dirty)
  BY <1>2, Zenon DEF WithWindows, Sound, Trimmable, States
<1>5. villain' = r
  BY <1>1, <1>4, Zenon
<1> HIDE DEF h, f
<1>6. Sound(u) /\ TailKept(u) /\ Steady(u) /\ u.home = h
  BY <1>2, <1>3, WindowFields, WindowsTrimmed
<1> HIDE DEF u
<1>7. Sound(r) /\ TailKept(r) /\ Steady(r) /\ r.home = h /\ r.dirty
  BY <1>6, RelayoutSound, SameMotionSteady
<1> HIDE DEF r
<1>8. Reports(villain, r)
  BY <1>7, Zenon DEF Reports
<1> QED BY <1>3, <1>5, <1>7, <1>8 DEF Held

\* An X11 popup that appears beside its parent, or on the active slot: there is a
\* slot behind either.
LEMMA MapPopupHeld ==
  ASSUME Held(villain), NEW p \in Popups, NEW w \in Windows \cup {NoWindow},
         MapPopup(p, w)
  PROVE  Handled(villain, villain')
<1> DEFINE i == IF w = NoWindow THEN villain.active ELSE villain.home[w]
           q == [villain.popup EXCEPT ![p] = [slot |-> i, parent |-> w]]
           t == WithWindows(villain, villain.home, q, villain.fresh, villain.dirty)
<1>1. i \in Slots \cup {NoSlot} /\ i < villain.count /\ TailAfter(villain, i)
  BY WindowFields DEF Held, Sound, IndexesExist, TailKept
<1>2. [villain EXCEPT !.popup[p] = [slot |-> i, parent |-> w]] = t
  BY Zenon DEF WithWindows, Held, Sound, Trimmable, States
<1>3. villain' = t
  BY <1>2, Zenon DEF MapPopup, Become
<1> HIDE DEF i
<1>4. [slot |-> i, parent |-> w] \in Placed
  BY <1>1, Zenon DEF Placed
<1>5. q \in [Popups -> Placed]
  BY <1>4, WindowFields, Zenon DEF Held
<1>6. \A x \in Popups : q[x].slot < villain.count /\ TailAfter(villain, q[x].slot)
  BY <1>1, WindowFields DEF Held, Sound, IndexesExist, TailKept
<1>7. \A x \in Windows : villain.home[x] < villain.count
  BY DEF Held, Sound, IndexesExist
<1> HIDE DEF q
<1>8. /\ Sound(t)
      /\ t.predefined = villain.predefined /\ t.count = villain.count
      /\ t.active = villain.active /\ t.home = villain.home /\ t.popup = q
      /\ t.launch = villain.launch /\ t.overviewVisible = villain.overviewVisible
      /\ t.dirty = villain.dirty /\ SameMotion(villain, t)
  BY <1>5, <1>6, <1>7, WindowFields, WindowsTrimmable DEF Held
<1> HIDE DEF t
<1>9. Tail(villain, t) /\ Shelters(villain, t)
  BY <1>6, <1>8 DEF Tail, TailKept, TailAfter, Shelters
<1>10. Reports(villain, t)
  BY <1>8, Zenon DEF Reports, View
<1>11. Steady(t)
  BY <1>8, SameMotionSteady DEF Held
<1> QED BY <1>3, <1>8, <1>9, <1>10, <1>11, KeptHandled DEF Kept

\* An X11 popup that goes.
LEMMA UnmapPopupHeld ==
  ASSUME Held(villain), NEW p \in Popups, UnmapPopup(p)
  PROVE  Handled(villain, villain')
<1> DEFINE none == [slot |-> NoSlot, parent |-> NoWindow]
           q == [villain.popup EXCEPT ![p] = none]
           t == WithWindows(villain, villain.home, q, villain.fresh, villain.dirty)
           u == Trim(t)
           r == Relayout(u)
<1>1. q \in [Popups -> Placed]
  <2>1. none \in Placed
    BY Zenon DEF Placed
  <2> HIDE DEF none
  <2> QED BY <2>1, WindowFields, Zenon DEF Held
<1>2. [villain EXCEPT !.popup[p] = none] = t
  BY Zenon DEF WithWindows, Held, Sound, Trimmable, States
<1>3. villain' = [u EXCEPT !.dirty = TRUE]
  BY <1>2, Zenon DEF UnmapPopup, Become
<1> HIDE DEF q
<1>4. Sound(u) /\ TailKept(u) /\ Steady(u) /\ u.home = villain.home
  BY <1>1, WindowFields, WindowsTrimmed DEF Held
<1> HIDE DEF u
<1>5. villain' = r
  BY <1>3 DEF Relayout
<1>6. Sound(r) /\ TailKept(r) /\ Steady(r) /\ r.home = villain.home /\ r.dirty
  BY <1>4, RelayoutSound, SameMotionSteady
<1> HIDE DEF r
<1> QED BY <1>5, <1>6, MarkedHandled DEF Shelters

\* A child launched from the active slot.
LEMMA SpawnHeld ==
  ASSUME Held(villain), NEW c \in Launches, Spawn(c)
  PROVE  Handled(villain, villain')
<1> DEFINE l == [villain.launch EXCEPT ![c] = villain.active]
           t == WithLaunch(villain, l)
<1>1. villain.launch \in [Launches -> Slots \cup {NoSlot}] /\ villain.active \in Slots
  BY Zenon DEF Held, Sound, Trimmable, States
<1>2. l \in [Launches -> Slots \cup {NoSlot}]
  BY <1>1
<1>3. \A x \in Launches : l[x] < villain.count /\ TailAfter(villain, l[x])
  BY <1>1 DEF Held, Sound, IndexesExist, TailKept
<1>4. villain' = t
  BY Zenon DEF Spawn, Become, WithLaunch, Held, Sound, Trimmable, States
<1> HIDE DEF l
<1>5. Sound(t) /\ Kept(villain, t) /\ t.active = villain.active /\ SameMotion(villain, t)
  BY <1>2, <1>3, LaunchSound DEF Held
<1> HIDE DEF t
<1> QED BY <1>4, <1>5, SameMotionSteady, KeptHandled

-----------------------------------------------------------------------------
(* The other handlers                                                      *)

\* The end of all motion.
LEMMA InterruptSound ==
  ASSUME NEW s, Held(s)
  PROVE  LET t == Interrupt(s)
         IN Sound(t) /\ Kept(s, t) /\ Steady(t)
BY CancelSwipeSound, CancelSwipeSteady, CancelMotionSound, CancelMotionSteady, KeptChain
   DEF Interrupt, Held

\* A barrier comes or goes.
LEMMA BarrierSound ==
  ASSUME NEW s, Sound(s), NEW b \in Barriers
  PROVE  LET t == [s EXCEPT !.barrier = b]
         IN Sound(t) /\ Kept(s, t) /\ (Steady(s) => Steady(t))
<1> DEFINE t == WithFlags(s, b, s.overviewVisible, s.overviewMapped, s.dirty)
<1>1. [s EXCEPT !.barrier = b] = t
  BY Zenon DEF WithFlags, Sound, Trimmable, States
<1>2. s.overviewVisible \in BOOLEAN /\ s.overviewMapped \in BOOLEAN /\ s.dirty \in BOOLEAN
  BY FlagFields
<1>3. Sound(t) /\ SameMotion(s, t) /\ t.active = s.active /\ Kept(s, t)
  BY <1>2, FlagsSound
<1> HIDE DEF t
<1>4. Steady(s) => Steady(t)
  BY <1>3, SameMotionSteady
<1> QED BY <1>1, <1>3, <1>4

\* A new configuration, applied by a trim.
LEMMA ReloadConfigHeld ==
  ASSUME Held(villain), NEW n \in PredefinedChoices, NEW k \in BOOLEAN,
         ReloadConfig(n, k)
  PROVE  Handled(villain, villain')
<1> DEFINE i == CancelMotion(CancelSwipe(villain))
           e == ReleaseButtons(i)
           t == WithConfig(e, n, k)
           u == Trim(t)
           r == Relayout(u)
<1>1. Sound(i) /\ Kept(villain, i) /\ Steady(i)
  BY InterruptSound DEF Interrupt
<1> HIDE DEF i
<1>2. Sound(e) /\ Kept(villain, e) /\ Steady(e)
  BY <1>1, ReleaseButtonsSound, SameMotionSteady, KeptChain
<1>3. villain' = r
  BY Zenon DEF ReloadConfig, Become, WithConfig, i
<1> HIDE DEF e
<1>4. Sound(t) /\ t.home = e.home /\ Steady(t)
  BY <1>2, ConfigSound, SameMotionSteady
<1> HIDE DEF t
<1>5. Sound(u) /\ TailKept(u) /\ u.home = t.home /\ Steady(u)
  BY <1>4, TrimSound, SameMotionSteady DEF Sound
<1> HIDE DEF u
<1>6. Sound(r) /\ TailKept(r) /\ r.home = u.home /\ Steady(r) /\ r.dirty
  BY <1>5, RelayoutSound, SameMotionSteady
<1> HIDE DEF r
<1>7. Shelters(villain, r)
  BY <1>2, <1>4, <1>5, <1>6 DEF Kept, Shelters
<1> QED BY <1>3, <1>6, <1>7, MarkedHandled

\* The overview is asked for or dismissed.
LEMMA SetOverviewVisibleHeld ==
  ASSUME Held(villain), NEW v \in BOOLEAN, SetOverviewVisible(v)
  PROVE  Handled(villain, villain')
<1> DEFINE i == CancelMotion(CancelSwipe(villain))
           e == ReleaseButtons(i)
           yes == TRUE
           t == WithFlags(e, e.barrier, v, e.overviewMapped, yes)
<1>1. Sound(i) /\ Kept(villain, i) /\ Steady(i)
  BY InterruptSound DEF Interrupt
<1>2. villain' = [e EXCEPT !.overviewVisible = v, !.dirty = TRUE]
  BY Zenon DEF SetOverviewVisible, Become
<1> HIDE DEF i
<1>3. Sound(e) /\ Kept(villain, e) /\ Steady(e)
  BY <1>1, ReleaseButtonsSound, SameMotionSteady, KeptChain
<1> HIDE DEF e
<1>4. [e EXCEPT !.overviewVisible = v, !.dirty = TRUE] = t
  BY <1>3, Zenon DEF WithFlags, Sound, Trimmable, States
<1>5. yes \in BOOLEAN
  OBVIOUS
<1>6. yes
  OBVIOUS
<1> HIDE DEF yes
<1>7. /\ Sound(t) /\ Tail(e, t) /\ Shelters(e, t) /\ SameMotion(e, t)
      /\ t.active = e.active /\ (yes => t.dirty)
  BY <1>3, <1>5, FlagFields, FlagsSound
<1> HIDE DEF t
<1>8. t.dirty
  BY <1>6, <1>7, Zenon
<1>9. TailKept(t) /\ Shelters(villain, t)
  BY <1>3, <1>7 DEF Held, Kept, Tail, Shelters
<1>10. Steady(t)
  BY <1>3, <1>7, SameMotionSteady
<1> QED BY <1>2, <1>4, <1>7, <1>8, <1>9, <1>10, MarkedHandled

\* The overview maps or unmaps.
LEMMA OverviewCommitHeld ==
  ASSUME Held(villain), NEW h \in BOOLEAN, OverviewCommit(h)
  PROVE  Handled(villain, villain')
<1> DEFINE m == ~villain.overviewMapped
           v == villain.overviewVisible /\ (m \/ h)
           e == WithFlags(villain, villain.barrier, v, m, villain.dirty)
           r == Relayout(e)
<1>1. m \in BOOLEAN /\ v \in BOOLEAN
  OBVIOUS
<1>2. [villain EXCEPT !.overviewVisible = @ /\ (m \/ h), !.overviewMapped = m] = e
  <2> HIDE DEF m
  <2> QED BY Zenon DEF WithFlags, Held, Sound, Trimmable, States
<1>3. villain' = r
  BY <1>2, Zenon DEF OverviewCommit, Become
<1> HIDE DEF m, v
<1>4. /\ Sound(e) /\ Tail(villain, e) /\ Shelters(villain, e) /\ SameMotion(villain, e)
      /\ e.active = villain.active
  BY <1>1, FlagFields, FlagsSound DEF Held
<1> HIDE DEF e
<1>5. Sound(r) /\ Kept(e, r) /\ Steady(r) /\ r.dirty
  BY <1>4, RelayoutSound, SameMotionSteady DEF Held
<1> HIDE DEF r
<1>6. TailKept(r) /\ Shelters(villain, r)
  BY <1>4, <1>5 DEF Held, Kept, Tail, Shelters
<1> QED BY <1>3, <1>5, <1>6, MarkedHandled

\* A button or the wheel.
LEMMA PointerButtonHeld ==
  ASSUME Held(villain), NEW b \in Barriers, PointerButton(b)
  PROVE  Handled(villain, villain')
<1> DEFINE m == FinishMotion(villain)
           t == [m EXCEPT !.barrier = b]
<1>1. Sound(m) /\ Kept(villain, m) /\ Steady(m)
  BY FinishMotionSound DEF Held
<1>2. villain' = t
  BY DEF PointerButton, Become
<1> HIDE DEF m
<1>3. Sound(t) /\ Kept(m, t) /\ Steady(t)
  BY <1>1, BarrierSound
<1> HIDE DEF t
<1> QED BY <1>1, <1>2, <1>3, KeptChain, KeptHandled

\* The input goes and comes back, and a screenshot selection with it.
LEMMA FocusHeld ==
  ASSUME Held(villain), FocusLost \/ FocusGained \/ SelectionBegin \/ SelectionEnd
  PROVE  Handled(villain, villain')
<1>1. "none" \in Barriers /\ "unfocused" \in Barriers /\ "selecting" \in Barriers
  BY DEF Barriers
<1>2. PICK s \in {villain, Interrupt(villain)}, b \in Barriers :
        villain' = [s EXCEPT !.barrier = b]
  BY <1>1 DEF FocusLost, FocusGained, SelectionBegin, SelectionEnd, Become
<1>3. Sound(s) /\ Kept(villain, s) /\ Steady(s)
  BY InterruptSound, KeptSame DEF Held
<1> DEFINE t == [s EXCEPT !.barrier = b]
<1>4. Sound(t) /\ Kept(s, t) /\ Steady(t)
  BY <1>3, BarrierSound
<1> HIDE DEF t
<1> QED BY <1>2, <1>3, <1>4, KeptChain, KeptHandled DEF t

\* The timer of the motion goes with the last that moves.
LEMMA TickHeld ==
  ASSUME Held(villain), NEW d \in 1 .. SettleTicks, Tick(d)
  PROVE  Handled(villain, villain')
<1> DEFINE a == AdvanceTracks(villain, d)
           s == AdvanceSettle(a, d)
           t == [s EXCEPT !.timer = FALSE]
           u == Trim(t)
<1>1. d \in Nat \ {0}
  BY NavigationAssumption
<1>2. /\ Sound(a) /\ Kept(villain, a) /\ SameGesture(villain, a)
      /\ a.active = villain.active /\ a.timer = villain.timer
      /\ a.tracks \subseteq villain.tracks
  BY <1>1, AdvanceTracksSound DEF Held
<1>3. villain' = IF TimedMotion(s) THEN s ELSE u
  BY Zenon DEF Tick, Become
<1> HIDE DEF a
<1>4. Presented(a)
  BY <1>2 DEF Held, Steady, Presented, Coherent, SameGesture,
              Reserved, Previewing, Settling
<1>5. Sound(s) /\ Kept(villain, s) /\ s.timer = villain.timer /\ Presented(s)
  BY <1>1, <1>2, <1>4, AdvanceSettleSound, KeptChain
<1> HIDE DEF s
<1>6. CASE TimedMotion(s)
  <2>1. Steady(s)
    BY <1>5, <1>6, Zenon DEF Steady, Tick
  <2> QED BY <1>3, <1>5, <1>6, <2>1, KeptHandled
<1>7. CASE ~TimedMotion(s)
  <2>1. s \in States
    BY <1>5 DEF Sound, Trimmable
  <2>2. t \in States
    BY <2>1, Zenon DEF States
  <2>3. SameIndexes(s, t) /\ SameSlots(s, t) /\ SameGesture(s, t)
    BY <2>1, SMT DEF States, SameIndexes, SameSlots, SameGesture
  <2>4. t.timer = FALSE
    BY <2>1, Zenon DEF States
  <2> HIDE DEF t
  <2>5. Sound(t) /\ Kept(villain, t)
    BY <1>5, <2>2, <2>3, SameIndexesSound, SameSlotsKept, KeptChain
  <2>6. Presented(t) /\ ~TimedMotion(t)
    BY <1>5, <1>7, <2>3 DEF Presented, Coherent, SameIndexes, SameGesture, TimedMotion,
                            Reserved, Previewing, Settling
  <2>7. Steady(t)
    BY <2>4, <2>6, Zenon DEF Steady
  <2>8. Sound(u) /\ Kept(t, u) /\ Steady(u)
    BY <2>5, <2>7, TrimSound, SameMotionSteady DEF Sound
  <2> HIDE DEF u
  <2>9. Kept(villain, u)
    BY <2>5, <2>8, KeptChain
  <2> QED BY <1>3, <1>7, <2>8, <2>9, KeptHandled
<1> QED BY <1>6, <1>7

\* The end of an iteration, where children are reaped and what changed is published.
LEMMA LoopTailHeld ==
  ASSUME Held(villain), NEW exited \in SUBSET Launches, LoopTail(exited)
  PROVE  Held(villain') /\ Shelters(villain, villain')
<1> DEFINE m == MaintainSwipe(villain)
           l == [c \in Launches |-> IF c \in exited THEN NoSlot ELSE m.launch[c]]
           t == WithLaunch(m, l)
           no == FALSE
           u == WithFlags(t, t.barrier, t.overviewVisible, t.overviewMapped, no)
<1>1. Sound(m) /\ Kept(villain, m) /\ Steady(m) /\ TailKept(m)
  BY MaintainSwipeSound DEF Held, Kept, Tail
<1>2. villain' = [m EXCEPT !.launch = l, !.dirty = FALSE]
  BY Zenon DEF LoopTail, Become
<1> HIDE DEF m
<1>3. m.launch \in [Launches -> Slots \cup {NoSlot}]
  BY <1>1, Zenon DEF Sound, Trimmable, States
<1>4. NoSlot < m.count /\ TailAfter(m, NoSlot)
  BY <1>1, MaxWorkspacesAssumption DEF Sound, Trimmable, States, NoSlot, TailAfter
<1>5. /\ l \in [Launches -> Slots \cup {NoSlot}]
      /\ \A c \in Launches : l[c] < m.count /\ TailAfter(m, l[c])
  BY <1>1, <1>3, <1>4 DEF Sound, IndexesExist, TailKept
<1> HIDE DEF l
<1>6. Sound(t) /\ Kept(m, t) /\ Steady(t)
  BY <1>1, <1>5, LaunchSound, SameMotionSteady
<1>7. villain' = [t EXCEPT !.dirty = FALSE]
  BY <1>1, <1>2, Zenon DEF WithLaunch, Sound, Trimmable, States
<1> HIDE DEF t
<1>8. [t EXCEPT !.dirty = FALSE] = u
  BY <1>6, Zenon DEF WithFlags, Sound, Trimmable, States
<1>9. no \in BOOLEAN
  OBVIOUS
<1> HIDE DEF no
<1>10. Sound(u) /\ Tail(t, u) /\ Shelters(t, u) /\ Steady(u)
  BY <1>6, <1>9, FlagFields, FlagsSound, SameMotionSteady
<1> HIDE DEF u
<1> QED BY <1>1, <1>6, <1>7, <1>8, <1>10 DEF Held, Kept, Tail, Shelters


-----------------------------------------------------------------------------
(* What a preview shows                                                    *)

\* t shows the preview of s, or none; and has its fields, of which a state that only
\* this is said of needs no others.
Shows(s, t) == /\ DOMAIN t = DOMAIN s
               /\ t.preview \in {s.preview, NoPreview}
Shown(s) == "preview" \in DOMAIN s

\* Along a chain of methods a preview stays or goes.
LEMMA ShowsChain ==
  ASSUME NEW s, NEW t, NEW u, Shows(s, t), Shows(t, u)
  PROVE  Shows(s, u)
BY DEF Shows

\* What has the fields of a shown state is one.
LEMMA ShownKept ==
  ASSUME NEW s, NEW t, Shown(s), Shows(s, t)
  PROVE  Shown(t)
BY DEF Shows, Shown

\* A state of the program has a preview.
LEMMA SoundShown == ASSUME NEW s, Sound(s) PROVE Shown(s)
BY DEF Sound, Trimmable, States, Shown

\* The methods of slots and windows leave the preview alone.
LEMMA SlotsShow ==
  ASSUME NEW s, Shown(s)
  PROVE  /\ Shows(s, s) /\ Shows(s, Trim(s)) /\ Shows(s, Relayout(s))
         /\ Shows(s, ReleaseButtons(s))
         /\ \A i : Shows(s, Ensure(s, i))
<1>1. Shows(s, Trim(s))
  BY DEF Shows, Shown, Trim
<1>2. Shows(s, Relayout(s)) /\ Shows(s, ReleaseButtons(s)) /\ Shows(s, s)
  BY DEF Shows, Shown, Relayout, ReleaseButtons
<1>3. ASSUME NEW i PROVE Shows(s, Ensure(s, i))
  BY DEF Shows, Shown, Ensure
<1> QED BY <1>1, <1>2, <1>3

\* The methods of motion leave the preview alone or hide it.
LEMMA MotionShows ==
  ASSUME NEW s, Shown(s)
  PROVE  /\ Shows(s, StillTracks(s)) /\ Shows(s, RetireTimer(s))
         /\ Shows(s, StopSwipeVisual(s)) /\ Shows(s, CancelSwipe(s))
         /\ Shows(s, CancelMotion(s)) /\ Shows(s, FinishMotion(s))
         /\ Shows(s, MaintainSwipe(s))
<1>1. ASSUME NEW t, Shown(t)
      PROVE  Shows(t, StillTracks(t)) /\ Shows(t, RetireTimer(t))
  BY <1>1 DEF Shows, Shown, StillTracks, RetireTimer
<1>2. ASSUME NEW t, Shown(t) PROVE Shows(t, StopSwipeVisual(t))
  <2> DEFINE h == [t EXCEPT !.previewDevice = NoDevice, !.preview = NoPreview]
             x == IF Previewing(t) THEN Trim(h) ELSE h
  <2>1. Shows(t, h)
    BY <1>2 DEF Shows, Shown
  <2> HIDE DEF h
  <2>2. Shows(t, x)
    BY <1>2, <2>1, SlotsShow, ShowsChain, ShownKept
  <2> HIDE DEF x
  <2>3. Shows(x, RetireTimer(x))
    BY <1>1, <1>2, <2>2, ShownKept
  <2>4. StopSwipeVisual(t) = RetireTimer(x)
    BY Zenon DEF StopSwipeVisual, x, h
  <2> QED BY <2>2, <2>3, <2>4, ShowsChain
<1>3. ASSUME NEW t, Shown(t) PROVE Shows(t, CancelSwipe(t))
  <2> DEFINE x == IF t.stream.owner = "None" THEN t
                  ELSE [t EXCEPT !.clientSwipe = @ /\ t.stream.owner # "Client",
                                 !.stream.owner = "Discard",
                                 !.stream.axis = "Pending", !.stream.offset = 0]
  <2>1. Shows(t, x)
    BY <1>3 DEF Shows, Shown
  <2>2. CancelSwipe(t) = StopSwipeVisual(x)
    BY Zenon DEF CancelSwipe
  <2> HIDE DEF x
  <2> QED BY <1>2, <1>3, <2>1, <2>2, ShowsChain, ShownKept
<1>4. ASSUME NEW t, Shown(t) PROVE Shows(t, CancelMotion(t))
  <2>1. Shows(t, StillTracks(t)) /\ Shown(StillTracks(t))
    BY <1>1, <1>4, ShownKept
  <2>2. Shows(t, RetireTimer(StillTracks(t))) /\ Shown(RetireTimer(StillTracks(t)))
    BY <1>1, <1>4, <2>1, ShownKept, ShowsChain
  <2> QED BY <2>2, SlotsShow, ShowsChain DEF CancelMotion
<1>5. Shows(s, FinishMotion(s))
  BY <1>2, <1>4, SlotsShow, ShownKept, ShowsChain DEF FinishMotion
<1>6. Shows(s, MaintainSwipe(s))
  <2> DEFINE a == IF s.tracks # {} /\ MotionBlocked(s) THEN CancelMotion(s) ELSE s
  <2>1. Shows(s, a)
    BY <1>4, SlotsShow
  <2>2. MaintainSwipe(s) \in {CancelSwipe(a), a}
    BY Zenon DEF MaintainSwipe
  <2> HIDE DEF a
  <2> QED BY <1>3, <2>1, <2>2, ShownKept, ShowsChain
<1> QED BY <1>1, <1>2, <1>3, <1>4, <1>5, <1>6

\* A switch and its animation show no preview but the one there is.
LEMMA SwitchShows ==
  ASSUME NEW s, Shown(s), NEW i, NEW direction, NEW ok
  PROVE  /\ Shows(s, SwitchImmediate(s, i)) /\ Shows(s, Switch(s, i, ok))
         /\ Shows(s, SwitchDirection(s, i, direction, ok))
<1>1. ASSUME NEW t, Shown(t), NEW j PROVE Shows(t, SwitchImmediate(t, j))
  <2> DEFINE c == CancelSwipe(t)
             e == Ensure(c, j)
             x == [e EXCEPT !.barrier = IF @ = "grabbed" THEN "none" ELSE @,
                            !.last    = IF j # t.active THEN t.active ELSE @,
                            !.active  = j]
  <2>1. Shows(t, c)
    BY <1>1, MotionShows
  <2> HIDE DEF c
  <2>2. Shows(t, e)
    BY <1>1, <2>1, SlotsShow, ShowsChain, ShownKept
  <2> HIDE DEF e
  <2>3. Shows(e, x)
    BY <1>1, <2>2, ShownKept DEF Shows, Shown
  <2>4. SwitchImmediate(t, j) \in {c, Relayout(x)}
    BY Zenon DEF SwitchImmediate, c, e
  <2> HIDE DEF x
  <2> QED BY <1>1, <2>1, <2>2, <2>3, <2>4, SlotsShow, ShowsChain, ShownKept
<1>2. ASSUME NEW t, Shown(t), NEW p, NEW q, NEW d PROVE Shows(t, StartMotion(t, p, q, d, ok))
  <2> DEFINE x == StartTracks(t, p, q, d)
  <2>1. Shows(t, x)
    BY <1>2 DEF Shows, Shown, StartTracks
  <2> HIDE DEF x
  <2>2. Shown(x)
    BY <1>2, <2>1, ShownKept
  <2>3. Shows(x, [x EXCEPT !.timer = TRUE])
    BY <2>2 DEF Shows, Shown
  <2>4. Shows(x, StopSwipeVisual(StillTracks(x)))
    BY <2>2, MotionShows, ShownKept, ShowsChain
  <2>5. Schedule(x, ok) \in {x, [x EXCEPT !.timer = TRUE], StopSwipeVisual(StillTracks(x))}
    BY Zenon DEF Schedule
  <2>6. StartMotion(t, p, q, d, ok) \in {t, Schedule(x, ok)}
    BY Zenon DEF StartMotion, x
  <2>7. Shows(x, Schedule(x, ok))
    BY <2>2, <2>3, <2>4, <2>5, SlotsShow
  <2> DEFINE u == Schedule(x, ok)
  <2>8. Shows(t, u) /\ Shows(t, t)
    BY <1>2, <2>1, <2>7, SlotsShow, ShowsChain
  <2> HIDE DEF u
  <2>9. StartMotion(t, p, q, d, ok) \in {t, u}
    BY <2>6 DEF u
  <2> QED BY <2>8, <2>9
<1>3. ASSUME NEW d PROVE Shows(s, SwitchDirection(s, i, d, ok))
  <2> DEFINE e == Ensure(s, i)
             t == SwitchImmediate(e, i)
             x == IF s.active = i THEN t ELSE StartMotion(t, s.active, i, d, ok)
  <2>1. Shows(s, e) /\ Shown(e)
    BY SlotsShow, ShownKept
  <2> HIDE DEF e
  <2>2. Shows(s, t) /\ Shown(t)
    BY <1>1, <2>1, ShowsChain, ShownKept
  <2> HIDE DEF t
  <2>3. Shows(s, x) /\ Shown(x)
    BY <1>2, <2>2, ShowsChain, ShownKept
  <2> HIDE DEF x
  <2>4. Shows(s, Trim(x))
    BY <2>3, SlotsShow, ShowsChain
  <2>5. SwitchDirection(s, i, d, ok) \in {s, Trim(x)}
    BY Zenon DEF SwitchDirection, x, t, e
  <2> QED BY <2>4, <2>5, SlotsShow
<1> QED BY <1>1, <1>3 DEF Switch

\* The methods that place windows show no preview but the one there is.
LEMMA WindowsShow ==
  ASSUME NEW s, Shown(s), NEW w, NEW p, NEW i, NEW F, NEW follow, NEW ok
  PROVE  /\ Shows(s, AddWindow(s, w, i)) /\ Shows(s, RefreshHints(s, w, p))
         /\ Shows(s, InitialFocus(s, w, p, i, follow, ok)) /\ Shows(s, MoveFamily(s, F, i))
<1>1. Shows(s, AddWindow(s, w, i))
  <2> DEFINE x == [s EXCEPT !.home[w] = i, !.fresh = @ \cup {w}, !.dirty = TRUE]
  <2>1. Shows(s, x)
    BY DEF Shows, Shown
  <2> HIDE DEF x
  <2> QED BY <2>1, SlotsShow, ShowsChain, ShownKept DEF AddWindow, x
<1>2. ASSUME NEW t, Shown(t) PROVE Shows(t, RefreshHints(t, w, p))
  <2> DEFINE x == [t EXCEPT !.home[w] = t.home[p]]
  <2>1. Shows(t, x) /\ Shown(x)
    BY <1>2 DEF Shows, Shown
  <2>2. RefreshHints(t, w, p) \in {t, Relayout(Trim(x))}
    BY Zenon DEF RefreshHints
  <2> HIDE DEF x
  <2>3. Shows(t, Trim(x)) /\ Shown(Trim(x))
    BY <2>1, SlotsShow, ShowsChain, ShownKept
  <2>4. Shows(t, Relayout(Trim(x)))
    BY <2>3, SlotsShow, ShowsChain
  <2> QED BY <1>2, <2>2, <2>4, SlotsShow
<1>3. ASSUME NEW t, Shown(t) PROVE Shows(t, ApplyRule(t, w, p, i))
  <2> DEFINE e == Ensure(t, i + 1)
             x == [e EXCEPT !.home[w] = i, !.popup = CarryPopups(@, {w}, i)]
             y == Trim(x)
             z == IF t.active \in {i, t.home[w]} THEN Relayout(y) ELSE y
  <2>1. Shows(t, e) /\ Shown(e)
    BY <1>3, SlotsShow, ShownKept
  <2> HIDE DEF e
  <2>2. Shows(e, x) /\ Shown(x)
    BY <2>1 DEF Shows, Shown
  <2> HIDE DEF x
  <2>3. Shows(t, y) /\ Shown(y)
    BY <2>1, <2>2, SlotsShow, ShowsChain, ShownKept
  <2> HIDE DEF y
  <2>4. Shows(t, z) /\ Shown(z)
    BY <2>3, SlotsShow, ShowsChain, ShownKept
  <2> HIDE DEF z
  <2>5. Shows(t, RefreshHints(z, w, p))
    BY <1>2, <2>4, ShowsChain
  <2>6. ApplyRule(t, w, p, i) \in {t, RefreshHints(z, w, p)}
    BY Zenon DEF ApplyRule, z, y, x, e
  <2> QED BY <1>3, <2>5, <2>6, SlotsShow
<1>4. Shows(s, InitialFocus(s, w, p, i, follow, ok))
  <2> DEFINE x == [s EXCEPT !.fresh = @ \ {w}]
             t == ApplyRule(x, w, p, i)
  <2>1. Shows(s, x) /\ Shown(x)
    BY DEF Shows, Shown
  <2> HIDE DEF x
  <2>2. Shows(s, t) /\ Shown(t)
    BY <1>3, <2>1, ShowsChain, ShownKept
  <2> HIDE DEF t
  <2>3. Shows(s, Switch(t, t.home[w], ok))
    BY <2>2, SwitchShows, ShowsChain
  <2>4. InitialFocus(s, w, p, i, follow, ok) \in {t, Switch(t, t.home[w], ok)}
    BY Zenon DEF InitialFocus, t, x
  <2> QED BY <2>2, <2>3, <2>4
<1>5. Shows(s, MoveFamily(s, F, i))
  <2> DEFINE a == CancelSwipe(s)
             c == CancelMotion(a)
             n == Ensure(c, i)
             e == ReleaseButtons(n)
             x == [e EXCEPT !.home  = [y \in Windows |-> IF y \in F THEN i ELSE @[y]],
                            !.popup = CarryPopups(@, F, i)]
             t == Trim(x)
  <2>1. Shows(s, a) /\ Shown(a)
    BY MotionShows, ShownKept
  <2> HIDE DEF a
  <2>2. Shows(s, c) /\ Shown(c)
    BY <2>1, MotionShows, ShowsChain, ShownKept
  <2> HIDE DEF c
  <2>3. Shows(s, n) /\ Shown(n)
    BY <2>2, SlotsShow, ShowsChain, ShownKept
  <2> HIDE DEF n
  <2>4. Shows(s, e) /\ Shown(e)
    BY <2>3, SlotsShow, ShowsChain, ShownKept
  <2> HIDE DEF e
  <2>5. Shows(e, x) /\ Shown(x)
    BY <2>4 DEF Shows, Shown
  <2> HIDE DEF x
  <2>6. Shows(s, t) /\ Shown(t)
    BY <2>4, <2>5, SlotsShow, ShowsChain, ShownKept
  <2> HIDE DEF t
  <2>7. MoveFamily(s, F, i) \in {c, Relayout(t)}
    BY Zenon DEF MoveFamily, t, x, e, n, c, a
  <2> QED BY <2>2, <2>6, <2>7, SlotsShow, ShowsChain
<1> QED BY <1>1, <1>2, <1>4, <1>5

\* A preview that settles does so over the slots as they are; a timer that cannot be
\* registered hides it.
LEMMA SettleLands ==
  ASSUME NEW s, Sound(s), NEW p \in Previews, p.source # NoSlot => p.target # NoSlot,
         NEW d \in Devices, NEW ok \in BOOLEAN
  PROVE  LET t == Settle(s, p, d, ok)
         IN Previewing(t) => /\ t.home = s.home /\ t.active = s.active
                             /\ Settling(t) /\ t.preview.target = p.target
<1> DEFINE q == [p EXCEPT !.left = SettleTicks]
           a == WithPreview(s, q, d)
           b == Trim(a)
           c == StillTracks(b)
           v == StopSwipeVisual(c)
           t == Schedule(b, ok)
<1>1. SettleTicks \in -1 .. SettleTicks /\ SettleTicks >= 0
  BY NavigationAssumption
<1>2. q \in Previews
  BY <1>1, Zenon DEF Previews
<1>3. q.source = p.source /\ q.target = p.target /\ q.left = SettleTicks
  BY DEF Previews
<1>4. [s EXCEPT !.preview = [p EXCEPT !.left = SettleTicks], !.previewDevice = d] = a
  BY Zenon DEF WithPreview
<1>5. Settle(s, p, d, ok) = t
  BY <1>4, Zenon DEF Settle
<1> HIDE DEF q
<1>6. Trimmable(a) /\ a.preview = q /\ a.active = s.active
  BY <1>2, <1>3, PreviewTrimmable
<1>7. a.home = s.home
  BY DEF WithPreview, Sound, Trimmable, States
<1> HIDE DEF a
<1>8. Sound(b) /\ b.home = s.home /\ b.active = s.active /\ b.preview = q
  BY <1>6, <1>7, TrimSound DEF SameMotion, SameGesture
<1> HIDE DEF b
<1>9. Shown(b) /\ Shown(c)
  BY <1>8, SoundShown, MotionShows, ShownKept
<1>10. t \in {b, [b EXCEPT !.timer = TRUE], v}
  BY Zenon DEF Schedule
<1>11. v.preview = NoPreview
  BY StillTracksSound, StopSwipeVisualSound, <1>8 DEF Unveiled
<1>12. /\ [b EXCEPT !.timer = TRUE].home = b.home
       /\ [b EXCEPT !.timer = TRUE].active = b.active
       /\ [b EXCEPT !.timer = TRUE].preview = b.preview
  BY <1>8 DEF Sound, Trimmable, States
<1> HIDE DEF c, v, t
<1>13. Previewing(t) => t.home = s.home /\ t.active = s.active /\ t.preview = q
  BY <1>8, <1>10, <1>11, <1>12, NoPreviewTyped DEF Previewing
<1> QED BY <1>1, <1>3, <1>5, <1>13 DEF Settling

\* A switch with nothing to cancel leads to its slot, or nowhere, and moves no window.
LEMMA CommitLands ==
  ASSUME NEW s, Sound(s), ~Previewing(s), s.stream.owner = "None", NEW i \in Nat
  PROVE  LET t == SwitchImmediate(s, i)
         IN t.home = s.home /\ t.active \in {s.active, i}
<1> DEFINE h == [s EXCEPT !.previewDevice = NoDevice, !.preview = NoPreview]
           c == RetireTimer(h)
           e == Ensure(c, i)
           x == [e EXCEPT !.barrier = IF @ = "grabbed" THEN "none" ELSE @,
                          !.last    = IF i # s.active THEN s.active ELSE @,
                          !.active  = i]
<1>1. SwitchImmediate(s, i) \in {c, Relayout(x)}
  BY Zenon DEF SwitchImmediate, CancelSwipe, StopSwipeVisual
<1>2. s \in States
  BY DEF Sound, Trimmable
<1>3. DOMAIN h = DOMAIN s /\ h.home = s.home /\ h.active = s.active
  BY <1>2 DEF States
<1> HIDE DEF h
<1>4. DOMAIN c = DOMAIN s /\ c.home = s.home /\ c.active = s.active
  BY <1>2, <1>3 DEF States, RetireTimer
<1> HIDE DEF c
<1>5. DOMAIN e = DOMAIN s /\ e.home = s.home
  BY <1>2, <1>4 DEF States, Ensure
<1> HIDE DEF e
<1>6. DOMAIN x = DOMAIN s /\ x.home = s.home /\ x.active = i
  BY <1>2, <1>5 DEF States
<1> HIDE DEF x
<1>7. Relayout(x).home = s.home /\ Relayout(x).active = i
  BY <1>2, <1>6 DEF States, Relayout
<1> QED BY <1>1, <1>4, <1>7

\* What SwipeLandsWhereShown says of a step.
Lands ==
  /\ /\ Reserved(villain) /\ Previewing(villain)
     /\ Reserved(villain') /\ Previewing(villain')
     /\ villain'.preview.direction = villain.preview.direction
     => villain'.preview.target = villain.preview.target
  /\ Reserved(villain) /\ Settling(villain') /\ villain'.active # villain.active
     => /\ villain'.active = villain.preview.target
        /\ villain.skipEmpty /\ villain.preview.wasOccupied
           => villain'.active \in Occupied(villain')

\* A step that shows no other preview lands nowhere.
LEMMA ShowsLands ==
  ASSUME Held(villain), Reserved(villain) => Shows(villain, villain')
  PROVE  Lands
<1>1. ASSUME Reserved(villain), Previewing(villain')
      PROVE  villain'.preview = villain.preview
  BY <1>1, NoPreviewTyped DEF Shows, Previewing
<1>2. ASSUME Reserved(villain), Settling(villain') PROVE FALSE
  <2>1. Settling(villain)
    BY <1>1, <1>2 DEF Settling, Previewing
  <2> QED BY <1>2, <2>1 DEF Held, Steady, Presented, Coherent, Settling, Reserved
<1> QED BY <1>1, <1>2 DEF Lands

\* What maintain_swipe() does to a reserved swipe: nothing, unless it ends it. One
\* it leaves alone has its target.
LEMMA MaintainReserved ==
  ASSUME Held(villain), Reserved(villain)
  PROVE  LET m == MaintainSwipe(villain)
         IN /\ Reserved(m) => m = villain
            /\ /\ Reserved(m) /\ Previewing(m)
               /\ villain.skipEmpty /\ villain.preview.wasOccupied
               => villain.preview.target \in Occupied(villain)
<1>1. villain.tracks = {}
  BY DEF Held, Steady, Presented, Coherent
<1> DEFINE gone == /\ villain.skipEmpty /\ Reserved(villain) /\ Previewing(villain)
                   /\ villain.preview.wasOccupied
                   /\ villain.preview.target \notin Occupied(villain)
           c == CancelSwipe(villain)
           m == MaintainSwipe(villain)
<1>2. m \in {villain, c} /\ (gone => m = c)
  BY <1>1, Zenon DEF MaintainSwipe
<1>3. ~Reserved(c)
  BY CancelSwipeSound DEF Held
<1> HIDE DEF m, c
<1>4. Reserved(m) => m = villain
  BY <1>2, <1>3
<1> QED BY <1>2, <1>3, <1>4 DEF m

\* A movement keeps the target of its direction, and settles nothing.
LEMMA SwipeUpdateLands ==
  ASSUME Held(villain), NEW d \in Devices, SwipeUpdate(d)
  PROVE  Lands
<1> DEFINE m == MaintainSwipe(villain)
<1>1. SUFFICES ASSUME Reserved(villain) PROVE Lands
  BY DEF Lands
<1>2. Shown(villain) /\ Shows(villain, m)
  BY SoundShown, MotionShows DEF Held
<1>3. CASE ~Reserved(m) \/ m.stream.device # d
  BY <1>2, <1>3, ShowsLands DEF SwipeUpdate, Become
<1>4. CASE Reserved(m) /\ m.stream.device = d
  <2>1. m = villain
    BY <1>1, <1>4, MaintainReserved
  <2> DEFINE u(r) == [villain EXCEPT !.stream.axis = r.axis, !.stream.offset = r.offset]
  <2>2. PICK r \in Recognised(villain.stream) :
          villain' \in {u(r), ShowPreview(u(r), d)}
    BY <1>4, <2>1, Zenon DEF SwipeUpdate, Become
  <2> DEFINE t == u(r)
  <2>3. /\ Shows(villain, t) /\ Shown(t) /\ t.preview = villain.preview
        /\ t.stream.source = villain.stream.source
    BY <1>2 DEF Held, Sound, Trimmable, States, Streams, Shows, Shown
  <2>4. villain' \in {t, ShowPreview(t, d)}
    BY <2>2
  <2> HIDE DEF u, m
  <2> HIDE DEF t
  <2> DEFINE direction == IF t.stream.offset < 0 THEN "Next"
                          ELSE IF t.stream.offset > 0 THEN "Previous" ELSE t.preview.direction
             stable == /\ Previewing(t) /\ t.preview.source = t.stream.source
                       /\ t.preview.direction = direction
             target == IF stable THEN t.preview.target
                       ELSE WorkspaceTarget(t, t.stream.source, direction)
             p == [source |-> t.stream.source, target |-> target,
                   direction |-> direction,
                   wasOccupied |-> IF stable THEN t.preview.wasOccupied
                                   ELSE target \in Occupied(t),
                   left |-> -1]
             e == Ensure(t, target)
             x == [e EXCEPT !.previewDevice = d, !.preview = p]
  <2>5. ShowPreview(t, d) \in {StopSwipeVisual(t), x}
    BY Zenon DEF ShowPreview
  <2>6. Shows(villain, StopSwipeVisual(t))
    BY <2>3, MotionShows, ShowsChain
  <2>7. CASE villain' \in {t, StopSwipeVisual(t)}
    BY <2>3, <2>6, <2>7, ShowsLands
  <2>8. CASE villain' = x
    <3>1. Shown(e)
      BY <2>3, SlotsShow, ShownKept
    <3> HIDE DEF e
    <3>2. villain'.preview = p
      BY <2>8, <3>1 DEF Shown
    <3>3. ~Settling(villain')
      BY <3>2 DEF Settling
    <3>4. ASSUME Previewing(villain), villain'.preview.direction = villain.preview.direction
          PROVE  villain'.preview.target = villain.preview.target
      <4>1. villain.preview.source = villain.stream.source
        BY <1>1, <3>4 DEF Held, Steady, Presented, Coherent, Settling, Reserved
      <4>2. Previewing(t) /\ t.preview.source = t.stream.source
        BY <2>3, <3>4, <4>1 DEF Previewing
      <4>3. t.preview.direction = direction
        BY <2>3, <3>2, <3>4
      <4>4. stable
        BY <4>2, <4>3
      <4>5. target = t.preview.target
        BY <4>4
      <4> HIDE DEF target, direction, stable
      <4> QED BY <2>3, <3>2, <4>5
    <3> QED BY <3>3, <3>4 DEF Lands
  <2> QED BY <2>4, <2>5, <2>7, <2>8
<1> QED BY <1>3, <1>4

\* A swipe that lets go lands on the slot of its preview, or where it came from.
LEMMA SwipeEndLands ==
  ASSUME Held(villain), NEW d \in Devices, NEW cancelled \in BOOLEAN,
         SwipeEnd(d, cancelled)
  PROVE  Lands
<1> DEFINE m == MaintainSwipe(villain)
           t == [m EXCEPT !.clientSwipe = FALSE, !.stream = IdleStream]
           u == [t EXCEPT !.preview = NoPreview]
           commit == m.stream.offset \in {-2, 2} /\ ~cancelled
           i == m.preview.target
           v == IF commit THEN SwitchImmediate(u, i) ELSE u
           no == FALSE
<1>1. SUFFICES ASSUME Reserved(villain) PROVE Lands
  BY DEF Lands
<1>2. Shown(villain) /\ Shows(villain, m) /\ Shown(m) /\ Sound(m) /\ Steady(m)
  BY SoundShown, MotionShows, ShownKept, MaintainSwipeSound DEF Held
<1>3. Shows(villain, t)
  <2> HIDE DEF m
  <2>1. Shows(m, t)
    BY <1>2 DEF Shows, Shown
  <2> QED BY <1>2, <2>1, ShowsChain
<1>4. CASE m.stream.device # d \/ ~Reserved(m) \/ ~Previewing(m)
  BY <1>2, <1>3, <1>4, ShowsLands DEF SwipeEnd, Become
<1>5. CASE ~(m.stream.device # d \/ ~Reserved(m) \/ ~Previewing(m))
  <2>1. PICK ok \in BOOLEAN : villain' = Settle(v, m.preview, d, ok)
    BY <1>5, Zenon DEF SwipeEnd, Become
  <2>2. m = villain
    BY <1>1, <1>5, MaintainReserved
  <2>3. villain.skipEmpty /\ villain.preview.wasOccupied => i \in Occupied(villain)
    BY <1>1, <1>5, <2>2, MaintainReserved
  <2>4. t = WithStream(m, no, IdleStream)
    BY Zenon DEF WithStream
  <2>5. no \in BOOLEAN
    OBVIOUS
  <2>6. Sound(t) /\ t.preview = m.preview /\ t.stream = IdleStream /\ t.active = m.active
    <3> HIDE DEF m, t, no
    <3> QED BY <1>2, <2>4, <2>5, IdleStreamTyped, StreamSound
  <2>7. t.home = m.home
    <3> HIDE DEF m
    <3> QED BY <1>2 DEF Sound, Trimmable, States
  <2>8. /\ m.preview \in Previews /\ i # NoSlot /\ i \in Nat
    <3> HIDE DEF m
    <3>1. i # NoSlot
      BY <1>2, <1>5 DEF Sound, Trimmable, Anchored
    <3> QED BY <1>2, <3>1, StreamFields DEF Slots
  <2>9. u = WithPreview(t, NoPreview, t.previewDevice)
    <3> HIDE DEF t
    <3> QED BY <2>6, Zenon DEF WithPreview, Sound, Trimmable, States
  <2>10. Sound(u) /\ u.stream = t.stream /\ u.preview = NoPreview /\ u.active = t.active
    <3> HIDE DEF t, u
    <3>1. t.previewDevice \in Devices \cup {NoDevice}
      BY <2>6, Zenon DEF Sound, Trimmable, States
    <3>2. NoSlot < t.count
      BY <2>6, MaxWorkspacesAssumption DEF Sound, Trimmable, States, NoSlot
    <3> QED BY <2>6, <2>9, <3>1, <3>2, NoPreviewTyped, PreviewTrimmable
  <2>11. u.home = t.home
    <3> HIDE DEF t
    <3> QED BY <2>6 DEF Sound, Trimmable, States
  <2> HIDE DEF t, no
  <2>12. ~Previewing(u) /\ u.stream.owner = "None"
    BY <2>6, <2>10, NoPreviewTyped, IdleStreamTyped DEF Previewing
  <2> HIDE DEF u
  <2>13. Sound(v) /\ v.home = villain.home /\ v.active \in {villain.active, i}
    <3> HIDE DEF m, i
    <3>1. CASE commit
      BY <2>2, <2>6, <2>7, <2>8, <2>10, <2>11, <2>12, <3>1, SwitchImmediateSound, CommitLands
    <3>2. CASE ~commit
      BY <2>2, <2>6, <2>7, <2>10, <2>11, <3>2
    <3> QED BY <3>1, <3>2
  <2> HIDE DEF v
  <2> DEFINE w == Settle(v, m.preview, d, ok)
  <2>14. Previewing(w) => /\ w.home = v.home /\ w.active = v.active
                          /\ Settling(w) /\ w.preview.target = i
    <3> HIDE DEF m
    <3> QED BY <2>8, <2>13, SettleLands
  <2> HIDE DEF w
  <2>15. Steady(villain')
    BY SwipeEndHeld DEF Handled, Held
  <2>16. ~(Previewing(villain') /\ Reserved(villain'))
    BY <2>1, <2>14, <2>15 DEF w, Steady, Presented, Coherent, Reserved
  <2>17. ASSUME Settling(villain'), villain'.active # villain.active
         PROVE  /\ villain'.active = villain.preview.target
                /\ villain.skipEmpty /\ villain.preview.wasOccupied
                   => villain'.active \in Occupied(villain')
    <3>1. villain'.home = villain.home /\ villain'.active \in {villain.active, i}
      BY <2>1, <2>13, <2>14, <2>17 DEF w, Settling
    <3>2. Occupied(villain') = Occupied(villain)
      BY <3>1 DEF Occupied
    <3> QED BY <2>2, <2>3, <2>17, <3>1, <3>2
  <2> QED BY <2>16, <2>17 DEF Lands
<1> QED BY <1>4, <1>5

\* Time settles no reserved swipe.
LEMMA TickLands ==
  ASSUME Held(villain), NEW d \in 1 .. SettleTicks, Tick(d)
  PROVE  Lands
<1> DEFINE a == AdvanceTracks(villain, d)
           s == AdvanceSettle(a, d)
           x == [s EXCEPT !.timer = FALSE]
<1>1. SUFFICES ASSUME Reserved(villain) PROVE Lands
  BY DEF Lands
<1>2. d \in Nat
  BY NavigationAssumption
<1>3. Sound(a) /\ SameGesture(villain, a)
  BY <1>2, AdvanceTracksSound DEF Held
<1>4. Shows(villain, a) /\ Shown(a)
  BY <1>3 DEF Shows, Shown, SameGesture, Held, Sound, Trimmable, States
<1>5. ~Settling(a)
  BY <1>1, <1>3 DEF SameGesture, Settling, Previewing, Reserved,
                    Held, Steady, Presented, Coherent
<1>6. villain' \in {s, Trim(x)}
  BY Zenon DEF Tick, Become
<1> HIDE DEF a
<1>7. s = a
  BY <1>5 DEF AdvanceSettle
<1> HIDE DEF s
<1>8. Shows(a, x) /\ Shown(x)
  BY <1>4, <1>7 DEF Shows, Shown
<1> HIDE DEF x
<1>9. Shows(villain, Trim(x))
  BY <1>4, <1>8, SlotsShow, ShowsChain
<1> QED BY <1>4, <1>6, <1>7, <1>9, ShowsLands

\* Every other handler shows the preview it finds, or hides it.
LEMMA NextLands ==
  ASSUME Held(villain), Next
  PROVE  Lands
<1>0. Shown(villain) /\ Shows(villain, villain)
  BY SoundShown, SlotsShow DEF Held
<1>1. Shows(villain, villain') => Lands
  BY ShowsLands
<1>2. CASE \/ \E direction \in Directions : StepWorkspace(direction)
           \/ LastWorkspace
           \/ \E i \in Slots : FocusWorkspace(i)
           \/ \E w \in Windows : FocusWindow(w)
  BY <1>0, <1>1, <1>2, SwitchShows
     DEF StepWorkspace, LastWorkspace, FocusWorkspace, FocusWindow, Become
<1>3. ASSUME NEW F \in SUBSET Windows, NEW i \in Slots, MoveFocusedToWorkspace(F, i)
      PROVE  Lands
  BY <1>0, <1>1, <1>3, WindowsShow DEF MoveFocusedToWorkspace, Become
<1>4. ASSUME NEW w \in Windows, NEW p \in Windows \cup {NoWindow},
             NewToplevel(w, p) \/ NewX11Window(w, p) \/ CommitWindow(w, p)
      PROVE  Lands
  <2> DEFINE added(i) == Relayout(RefreshHints(AddWindow(villain, w, i), w, p))
             s == RefreshHints(villain, w, p)
  <2>1. ASSUME NEW i PROVE Shows(villain, added(i)) /\ Shown(added(i))
    <3>1. Shows(villain, AddWindow(villain, w, i)) /\ Shown(AddWindow(villain, w, i))
      BY <1>0, WindowsShow, ShownKept
    <3> DEFINE x == AddWindow(villain, w, i)
               y == RefreshHints(x, w, p)
    <3> HIDE DEF x
    <3>2. Shows(villain, y) /\ Shown(y)
      BY <1>0, <3>1, WindowsShow, ShownKept, ShowsChain DEF x
    <3> HIDE DEF y
    <3>3. Shows(villain, Relayout(y)) /\ Shown(Relayout(y))
      BY <1>0, <3>2, SlotsShow, ShownKept, ShowsChain
    <3> QED BY <3>3 DEF x, y
  <2>2. Shows(villain, s) /\ Shown(s)
    BY <1>0, WindowsShow, ShownKept
  <2>3. ASSUME NEW t, Shows(villain, t), Shown(t), NEW i, NEW follow, NEW ok
        PROVE  Shows(villain, InitialFocus(t, w, p, i, follow, ok))
    BY <2>3, WindowsShow, ShowsChain
  <2>4. CASE NewToplevel(w, p)
    <3>1. PICK i \in LaunchSlots : villain' = added(i)
      BY <2>4, Zenon DEF NewToplevel, Become
    <3> HIDE DEF added
    <3> QED BY <1>1, <2>1, <3>1
  <2>5. CASE NewX11Window(w, p)
    <3>1. PICK at \in LaunchSlots, i \in Slots, follow \in BOOLEAN, ok \in BOOLEAN :
            villain' = InitialFocus(added(at), w, p, i, follow, ok)
      BY <2>5, Zenon DEF NewX11Window, Become
    <3> HIDE DEF added
    <3> QED BY <1>1, <2>1, <2>3, <3>1
  <2>6. CASE CommitWindow(w, p)
    <3>1. \/ villain' = s
          \/ \E i \in Slots, follow \in BOOLEAN, ok \in BOOLEAN :
               villain' = InitialFocus(s, w, p, i, follow, ok)
      BY <2>6, Zenon DEF CommitWindow, Become
    <3> HIDE DEF s
    <3> QED BY <1>1, <2>2, <2>3, <3>1
  <2> QED BY <1>4, <2>4, <2>5, <2>6
<1>5. ASSUME NEW w \in Windows, RemoveWindow(w) PROVE Lands
  <2>1. PICK t \in {villain, ReleaseButtons(villain)} :
          villain' = Relayout(Trim([t EXCEPT !.home[w] = NoSlot, !.fresh = @ \ {w}]))
    BY <1>5 DEF RemoveWindow, Become
  <2>2. Shows(villain, t) /\ Shown(t)
    BY <1>0, <2>1, SlotsShow, ShownKept
  <2> DEFINE x == [t EXCEPT !.home[w] = NoSlot, !.fresh = @ \ {w}]
             y == Trim(x)
  <2>3. Shows(villain, x) /\ Shown(x)
    BY <2>2 DEF Shows, Shown
  <2> HIDE DEF x
  <2>4. Shows(villain, y) /\ Shown(y)
    BY <2>3, SlotsShow, ShownKept, ShowsChain
  <2> HIDE DEF y
  <2> QED BY <1>1, <2>1, <2>4, SlotsShow, ShowsChain DEF x, y
<1>6. ASSUME NEW p \in Popups, NEW w \in Windows \cup {NoWindow}, MapPopup(p, w)
      PROVE  Lands
  BY <1>0, <1>1, <1>6 DEF MapPopup, Become, Shows, Shown
<1>7. ASSUME NEW p \in Popups, UnmapPopup(p) PROVE Lands
  <2> DEFINE x == [villain EXCEPT !.popup[p] = [slot |-> NoSlot, parent |-> NoWindow]]
             y == Trim(x)
  <2>1. Shows(villain, x) /\ Shown(x)
    BY <1>0 DEF Shows, Shown
  <2>2. villain' = [y EXCEPT !.dirty = TRUE]
    BY <1>7, Zenon DEF UnmapPopup, Become
  <2> HIDE DEF x
  <2>3. Shows(villain, y) /\ Shown(y)
    BY <2>1, SlotsShow, ShownKept, ShowsChain
  <2> HIDE DEF y
  <2> QED BY <1>1, <2>2, <2>3 DEF Shows, Shown
<1>8. ASSUME NEW c \in Launches, Spawn(c) PROVE Lands
  BY <1>0, <1>1, <1>8 DEF Spawn, Become, Shows, Shown
<1> DEFINE i == Interrupt(villain)
           e == ReleaseButtons(i)
<1>9. Shows(villain, i) /\ Shown(i)
  BY <1>0, MotionShows, ShownKept, ShowsChain DEF Interrupt
<1>10. i = CancelMotion(CancelSwipe(villain))
  BY DEF Interrupt
<1> HIDE DEF i
<1>11. Shows(villain, e) /\ Shown(e)
  BY <1>9, SlotsShow, ShownKept, ShowsChain
<1>12. ASSUME NEW n \in PredefinedChoices, NEW k \in BOOLEAN, ReloadConfig(n, k)
       PROVE  Lands
  <2> DEFINE x == [e EXCEPT !.predefined = n, !.skipEmpty = k]
             y == Trim(x)
  <2>1. villain' = Relayout(y)
    BY <1>10, <1>12, Zenon DEF ReloadConfig, Become
  <2> HIDE DEF e
  <2>2. Shows(villain, x) /\ Shown(x)
    BY <1>11 DEF Shows, Shown
  <2> HIDE DEF x
  <2>3. Shows(villain, y) /\ Shown(y)
    BY <2>2, SlotsShow, ShownKept, ShowsChain
  <2> HIDE DEF y
  <2> QED BY <1>1, <2>1, <2>3, SlotsShow, ShowsChain
<1>13. ASSUME NEW b \in BOOLEAN, SetOverviewVisible(b) PROVE Lands
  <2>1. villain' = [e EXCEPT !.overviewVisible = b, !.dirty = TRUE]
    BY <1>10, <1>13, Zenon DEF SetOverviewVisible, Become
  <2> HIDE DEF e
  <2> QED BY <1>1, <1>11, <2>1 DEF Shows, Shown
<1>14. ASSUME NEW b \in BOOLEAN, OverviewCommit(b) PROVE Lands
  <2> DEFINE m == ~villain.overviewMapped
             x == [villain EXCEPT !.overviewVisible = @ /\ (m \/ b), !.overviewMapped = m]
  <2>1. villain' = Relayout(x)
    BY <1>14, Zenon DEF OverviewCommit, Become
  <2> HIDE DEF m
  <2>2. Shows(villain, x) /\ Shown(x)
    BY <1>0 DEF Shows, Shown
  <2> HIDE DEF x
  <2> QED BY <1>1, <2>1, <2>2, SlotsShow, ShowsChain
<1>15. ASSUME NEW d \in Devices, NEW b \in BOOLEAN, SwipeBegin(d, b)
       PROVE  Lands
  <2> DEFINE c == CancelSwipe(villain)
  <2>1. Shows(villain, c) /\ Shown(c)
    BY <1>0, MotionShows, ShownKept
  <2> HIDE DEF c
  <2>2. Shows(villain, CancelMotion(c)) /\ Shown(CancelMotion(c))
    BY <2>1, MotionShows, ShownKept, ShowsChain
  <2>3. PICK m \in {c, CancelMotion(c)} : \E told, r :
          villain' = [m EXCEPT !.clientSwipe = told, !.stream = r]
    BY <1>15, Zenon DEF SwipeBegin, Become, c
  <2> QED BY <1>1, <2>1, <2>2, <2>3 DEF Shows, Shown
<1>16. ASSUME NEW d \in Devices, DeviceRemoved(d) PROVE Lands
  <2> DEFINE r == ReleaseButtons(villain)
             c == CancelSwipe(r)
  <2>1. Shows(villain, r) /\ Shown(r)
    BY <1>0, SlotsShow, ShownKept
  <2>2. villain' \in {r, [c EXCEPT !.stream = IdleStream]}
    BY <1>16, Zenon DEF DeviceRemoved, Become
  <2> HIDE DEF r
  <2>3. Shows(villain, c) /\ Shown(c)
    BY <2>1, MotionShows, ShownKept, ShowsChain
  <2> HIDE DEF c
  <2> QED BY <1>1, <2>1, <2>2, <2>3 DEF Shows, Shown
<1>17. CASE OutputDisturbed
  BY <1>1, <1>9, <1>17 DEF OutputDisturbed, Become, i
<1>18. CASE FocusLost \/ FocusGained \/ SelectionBegin \/ SelectionEnd
  <2>1. PICK s \in {villain, i} : \E b : villain' = [s EXCEPT !.barrier = b]
    BY <1>18 DEF FocusLost, FocusGained, SelectionBegin, SelectionEnd, Become, i
  <2> QED BY <1>0, <1>1, <1>9, <2>1 DEF Shows, Shown
<1>19. ASSUME NEW grab, PointerButton(grab) PROVE Lands
  <2> DEFINE s == FinishMotion(villain)
  <2>1. Shows(villain, s) /\ Shown(s)
    BY <1>0, MotionShows, ShownKept
  <2>2. villain' = [s EXCEPT !.barrier = grab]
    BY <1>19, Zenon DEF PointerButton, Become
  <2> HIDE DEF s
  <2> QED BY <1>1, <2>1, <2>2 DEF Shows, Shown
<1>20. ASSUME NEW exited \in SUBSET Launches, LoopTail(exited) PROVE Lands
  <2> DEFINE m == MaintainSwipe(villain)
             l == [c \in Launches |-> IF c \in exited THEN NoSlot ELSE m.launch[c]]
  <2>1. Shows(villain, m) /\ Shown(m)
    BY <1>0, MotionShows, ShownKept
  <2>2. villain' = [m EXCEPT !.launch = l, !.dirty = FALSE]
    BY <1>20, Zenon DEF LoopTail, Become
  <2> HIDE DEF m, l
  <2> QED BY <1>1, <2>1, <2>2 DEF Shows, Shown
<1>21. CASE \/ \E d \in Devices : SwipeUpdate(d)
            \/ \E d \in Devices, b \in BOOLEAN : SwipeEnd(d, b)
            \/ \E d \in 1 .. SettleTicks : Tick(d)
  BY <1>21, SwipeUpdateLands, SwipeEndLands, TickLands
<1> QED
  BY <1>2, <1>3, <1>4, <1>5, <1>6, <1>7, <1>8, <1>12, <1>13, <1>14, <1>15, <1>16,
     <1>17, <1>18, <1>19, <1>20, <1>21, Zenon DEF Next

-----------------------------------------------------------------------------
(* The initial state, and every step                                       *)

\* The initial state is sound, for any number of fixed slots, with its tail in
\* place and everything at rest.
LEMMA InitHeld ==
  ASSUME Init PROVE Held(villain)
<1>1. PICK n \in PredefinedChoices, k \in BOOLEAN :
        villain =
          [predefined |-> n, skipEmpty |-> k,
           count |-> Min({MaxWorkspaces, Max({2, n + 1})}),
           active |-> 0, last |-> NoSlot,
           home   |-> [w \in Windows |-> NoSlot], fresh |-> {},
           popup  |-> [p \in Popups |-> [slot |-> NoSlot, parent |-> NoWindow]],
           launch |-> [c \in Launches |-> NoSlot],
           tracks |-> {}, goal |-> [i \in Slots |-> 0], left |-> [i \in Slots |-> 0],
           timer  |-> FALSE,
           stream |-> IdleStream, clientSwipe |-> FALSE,
           preview |-> NoPreview, previewDevice |-> NoDevice,
           barrier |-> "none", overviewVisible |-> FALSE, overviewMapped |-> FALSE,
           dirty  |-> TRUE]
  BY Zenon DEF Init
<1> DEFINE count == Min({MaxWorkspaces, Max({2, n + 1})})
<1>2. /\ count \in 2 .. MaxWorkspaces /\ n \in Nat
      /\ n + 1 <= count \/ count = MaxWorkspaces
  <2>1. n + 1 \in Nat /\ MaxWorkspaces \in Nat /\ MaxWorkspaces >= 2 /\ n \in Nat
    BY NavigationAssumption, MaxWorkspacesAssumption
  <2>2. Max({2, n + 1}) = IF 2 <= n + 1 THEN n + 1 ELSE 2
    BY <2>1, MaxPair
  <2>3. Max({2, n + 1}) \in Nat /\ Max({2, n + 1}) >= 2 /\ Max({2, n + 1}) >= n + 1
    BY <2>1, <2>2
  <2> QED BY <2>1, <2>3, MinPair
<1> HIDE DEF count
<1>3. villain.count = count /\ villain.predefined = n
  BY <1>1 DEF count
<1>4. 0 \in Slots /\ 0 \in -1 .. 1 /\ 0 \in 0 .. SettleTicks
  BY NavigationAssumption, MaxWorkspacesAssumption DEF Slots
<1>5. [slot |-> NoSlot, parent |-> NoWindow] \in Placed /\ "none" \in Barriers
  BY Zenon DEF Placed, Barriers
<1>6. villain \in States
  BY <1>1, <1>2, <1>4, <1>5, IdleStreamTyped, NoPreviewTyped, Zenon DEF States, count
<1>7. /\ villain.active = 0 /\ villain.last = NoSlot /\ villain.tracks = {}
      /\ \A w \in Windows : villain.home[w] = NoSlot
      /\ \A p \in Popups : villain.popup[p].slot = NoSlot
      /\ \A c \in Launches : villain.launch[c] = NoSlot
      /\ villain.stream = IdleStream /\ villain.preview = NoPreview
      /\ villain.previewDevice = NoDevice
  BY <1>1, Zenon
<1>8. IdleStream.owner = "None" /\ IdleStream.device = NoDevice
  BY DEF IdleStream
<1>9. Sound(villain)
  BY <1>2, <1>3, <1>6, <1>7, <1>8, NoPreviewTyped
     DEF Sound, Trimmable, Anchored, IndexesExist, Reserved, Previewing, NoSlot
<1>10. TailKept(villain)
  BY <1>2, <1>3, <1>7 DEF TailKept, TailAfter, NoSlot
<1>11. ~villain.timer /\ ~villain.clientSwipe
  BY <1>1, Zenon
<1>12. Coherent(villain) /\ ~TimedMotion(villain)
  BY <1>7, <1>8, NoPreviewTyped DEF Coherent, TimedMotion, Settling, Previewing, Reserved
<1>13. villain.stream.owner # "Client"
  BY <1>7, <1>8
<1>14. Steady(villain)
  BY <1>11, <1>12, <1>13, Zenon DEF Steady, Presented
<1> QED BY <1>9, <1>10, <1>14 DEF Held

\* The actions that switch.
LEMMA SwitchActionHeld ==
  ASSUME Held(villain),
         \/ \E direction \in Directions : StepWorkspace(direction)
         \/ LastWorkspace
         \/ \E i \in Slots : FocusWorkspace(i)
         \/ \E w \in Windows : FocusWindow(w)
  PROVE  Handled(villain, villain')
<1>1. Slots \subseteq Nat
  BY MaxWorkspacesAssumption DEF Slots
<1>2. /\ villain.active \in Slots /\ villain.last \in Slots \cup {NoSlot}
      /\ villain.home \in [Windows -> Slots \cup {NoSlot}]
  BY Zenon DEF Held, Sound, Trimmable, States
<1>3. PICK i \in Nat, ok \in BOOLEAN, direction \in Directions :
        villain' \in {SwitchDirection(villain, i, direction, ok), Switch(villain, i, ok)}
  <2>0. "Next" \in Directions
    BY DEF Directions
  <2>1. ASSUME NEW direction \in Directions, StepWorkspace(direction)
        PROVE  \E i \in Nat, ok \in BOOLEAN :
                 villain' = SwitchDirection(villain, i, direction, ok)
    <3> DEFINE i == WorkspaceTarget(villain, villain.active, direction)
    <3>1. i \in Nat \cup {NoSlot}
      BY <1>2, WorkspaceTargetIndex DEF Held
    <3>2. PICK ok \in BOOLEAN :
            i # NoSlot /\ villain' = SwitchDirection(villain, i, direction, ok)
      BY <2>1, Zenon DEF StepWorkspace, Become
    <3> HIDE DEF i
    <3> QED BY <3>1, <3>2
  <2>2. ASSUME LastWorkspace
        PROVE  \E i \in Nat, ok \in BOOLEAN : villain' = Switch(villain, i, ok)
    BY <1>1, <1>2, <2>2 DEF LastWorkspace, Become
  <2>3. ASSUME NEW i \in Slots, FocusWorkspace(i)
        PROVE  \E j \in Nat, ok \in BOOLEAN : villain' = Switch(villain, j, ok)
    BY <1>1, <2>3 DEF FocusWorkspace, Become
  <2>4. ASSUME NEW w \in Windows, FocusWindow(w)
        PROVE  \E i \in Nat, ok \in BOOLEAN : villain' = Switch(villain, i, ok)
    <3>1. villain.home[w] \in Slots \cup {NoSlot} /\ villain.home[w] # NoSlot
      BY <1>2, <2>4 DEF FocusWindow
    <3>2. villain.home[w] \in Nat
      BY <1>1, <3>1
    <3> QED BY <2>4, <3>2, Zenon DEF FocusWindow, Become
  <2> QED BY <2>0, <2>1, <2>2, <2>3, <2>4, Zenon
<1> DEFINE t == SwitchDirection(villain, i, direction, ok)
           u == Switch(villain, i, ok)
<1>4. Sound(t) /\ Kept(villain, t) /\ Steady(t)
  BY SwitchDirectionSound DEF Held
<1>5. Sound(u) /\ Kept(villain, u) /\ Steady(u)
  BY SwitchSound DEF Held
<1> HIDE DEF t, u
<1> QED BY <1>3, <1>4, <1>5, KeptHandled DEF t, u

\* What a step loses, and what it leaves unpublished: a window that is removed, a
\* window that its rule moved out of sight.
Accounted ==
  /\ \/ Shelters(villain, villain')
     \/ \E w \in Windows : /\ RemoveWindow(w)
                           /\ \A x \in Windows \ {w} : villain'.home[x] = villain.home[x]
  /\ Reports(villain, villain') \/ PublishingStep \/ SilentRuleMove

\* Every handler keeps the invariant and accounts for what it changes.
LEMMA NextHeld ==
  ASSUME Held(villain), Next
  PROVE  Held(villain') /\ Accounted
<1>0. Handled(villain, villain') => Held(villain') /\ Accounted
  BY Zenon DEF Handled, Accounted
<1>1. CASE \/ \E direction \in Directions : StepWorkspace(direction)
           \/ LastWorkspace
           \/ \E i \in Slots : FocusWorkspace(i)
           \/ \E w \in Windows : FocusWindow(w)
  BY <1>0, <1>1, SwitchActionHeld
<1>2. ASSUME NEW F \in SUBSET Windows, NEW i \in Slots, MoveFocusedToWorkspace(F, i)
      PROVE  Handled(villain, villain')
  <2> DEFINE t == MoveFamily(villain, F, i)
  <2>1. Sound(t) /\ Kept(villain, t) /\ (Steady(villain) => Steady(t))
    BY MoveFamilySound DEF Held
  <2>2. villain' = t
    BY <1>2, Zenon DEF MoveFocusedToWorkspace, Become
  <2> HIDE DEF t
  <2> QED BY <2>1, <2>2, KeptHandled
<1>3. ASSUME NEW w \in Windows, NEW p \in Windows \cup {NoWindow},
             NewToplevel(w, p) \/ NewX11Window(w, p)
      PROVE  Handled(villain, villain')
  BY <1>3, NewToplevelHeld, NewX11WindowHeld
<1>4. ASSUME NEW w \in Windows, NEW p \in Windows \cup {NoWindow}, CommitWindow(w, p)
      PROVE  Held(villain') /\ Accounted
  <2>1. /\ Held(villain') /\ Shelters(villain, villain')
        /\ Reports(villain, villain') \/ SilentRuleMove
    BY <1>4, CommitWindowHeld
  <2> QED BY <2>1, Zenon DEF Accounted
<1>5. ASSUME NEW w \in Windows, RemoveWindow(w)
      PROVE  Held(villain') /\ Accounted
  <2>1. /\ Held(villain') /\ Reports(villain, villain')
        /\ \A x \in Windows \ {w} : villain'.home[x] = villain.home[x]
    BY <1>5, RemoveWindowHeld
  <2> QED BY <1>5, <2>1, Zenon DEF Accounted
<1>6. ASSUME NEW p \in Popups, NEW w \in Windows \cup {NoWindow}, MapPopup(p, w)
      PROVE  Handled(villain, villain')
  BY <1>6, MapPopupHeld
<1>7. ASSUME NEW p \in Popups, UnmapPopup(p) PROVE Handled(villain, villain')
  BY <1>7, UnmapPopupHeld
<1>8. ASSUME NEW c \in Launches, Spawn(c) PROVE Handled(villain, villain')
  BY <1>8, SpawnHeld
<1>9. ASSUME NEW n \in PredefinedChoices, NEW k \in BOOLEAN, ReloadConfig(n, k)
      PROVE  Handled(villain, villain')
  BY <1>9, ReloadConfigHeld
<1>10. ASSUME NEW b \in BOOLEAN, SetOverviewVisible(b) \/ OverviewCommit(b)
       PROVE  Handled(villain, villain')
  BY <1>10, SetOverviewVisibleHeld, OverviewCommitHeld
<1>11. ASSUME NEW d \in Devices, NEW b \in BOOLEAN, SwipeBegin(d, b) \/ SwipeEnd(d, b)
       PROVE  Handled(villain, villain')
  BY <1>11, SwipeBeginHeld, SwipeEndHeld
<1>12. ASSUME NEW d \in Devices, SwipeUpdate(d) \/ DeviceRemoved(d)
       PROVE  Handled(villain, villain')
  BY <1>12, SwipeUpdateHeld, DeviceRemovedHeld
<1>13. CASE OutputDisturbed
  <2> DEFINE t == Interrupt(villain)
  <2>1. Sound(t) /\ Kept(villain, t) /\ Steady(t)
    BY InterruptSound
  <2>2. villain' = t
    BY <1>13, Zenon DEF OutputDisturbed, Become
  <2> HIDE DEF t
  <2> QED BY <1>0, <2>1, <2>2, KeptHandled
<1>14. CASE FocusLost \/ FocusGained \/ SelectionBegin \/ SelectionEnd
  BY <1>0, <1>14, FocusHeld
<1>15. ASSUME NEW grab \in {"none"} \cup ({"grabbed", "layerGrab"} \cap Interruptions),
              PointerButton(grab)
       PROVE  Handled(villain, villain')
  <2>1. grab \in Barriers
    BY DEF Barriers
  <2> QED BY <1>15, <2>1, PointerButtonHeld
<1>16. ASSUME NEW d \in 1 .. SettleTicks, Tick(d) PROVE Handled(villain, villain')
  BY <1>16, TickHeld
<1>17. ASSUME NEW exited \in SUBSET Launches, LoopTail(exited)
       PROVE  Held(villain') /\ Accounted
  <2>1. Held(villain') /\ Shelters(villain, villain')
    BY <1>17, LoopTailHeld
  <2>2. PublishingStep
    BY <1>17, Zenon DEF PublishingStep
  <2> QED BY <2>1, <2>2, Zenon DEF Accounted
<1> QED
  BY <1>0, <1>1, <1>2, <1>3, <1>4, <1>5, <1>6, <1>7, <1>8, <1>9, <1>10, <1>11, <1>12,
     <1>13, <1>14, <1>15, <1>16, <1>17, Zenon DEF Next

-----------------------------------------------------------------------------
(* The theorems                                                            *)

\* In every reachable state the state is typed, every index is in range, the slots
\* end in the tail trim_dynamic_workspaces() promises, and one presentation at most
\* runs with its timer: the inductive invariant the other theorems follow from.
THEOREM AlwaysHeld == Spec => []Held(villain)
<1>1. Init => Held(villain)
  BY InitHeld
<1>2. Held(villain) /\ [Next]_villain => Held(villain)'
  <2> SUFFICES ASSUME Held(villain), [Next]_villain PROVE Held(villain')
    BY Zenon
  <2>1. CASE Next
    BY <2>1, NextHeld
  <2>2. CASE UNCHANGED villain
    BY <2>2, Zenon
  <2> QED BY <2>1, <2>2
<1> QED BY <1>1, <1>2, PTL DEF Spec

\* The state of the compositor stays well typed, for any number of windows,
\* popups, children and touchpads and any MAX_WORKSPACES.
THEOREM TypeCorrect == Spec => []TypeOK
<1>1. Held(villain) => TypeOK
  BY DEF Held, Sound, Trimmable, TypeOK
<1> QED BY <1>1, AlwaysHeld, PTL

\* No handler leaves an index past the end of self.workspaces behind, which the
\* next one would index with.
THEOREM IndexesInRange == Spec => []NoDanglingIndex
<1>1. Held(villain) => NoDanglingIndex
  BY DEF Held, Sound, NoDanglingIndex
<1> QED BY <1>1, AlwaysHeld, PTL

\* Between handlers there is room behind the active slot and behind every slot with a
\* window, a popup or a running child: no handler forgets the trim that its changes
\* call for, and none trims before the last of them.
THEOREM TailAlwaysKept == Spec => []DynamicTail
<1>1. Held(villain) => DynamicTail
  BY DEF Held, DynamicTail
<1> QED BY <1>1, AlwaysHeld, PTL

\* The one timer runs exactly while a switch animation or a settling preview moves,
\* and at most one of finger, animation and settling preview moves at all, whatever
\* interrupts them and whether or not a timer could be registered.
THEOREM OneTimerForMotion == Spec => []TimerRunsWithMotion
<1>1. Held(villain) => TimerRunsWithMotion
  BY Zenon DEF Held, Steady, Presented, TimerRunsWithMotion, OnePresentation
<1> QED BY <1>1, AlwaysHeld, PTL

\* What a client was told of a swipe it was sent the beginning of is brought to an
\* end by every path that takes the stream away from it, and by no other.
THEOREM ClientsHearTheEnd == Spec => []ClientSwipePaired
<1>1. Held(villain) => ClientSwipePaired
  BY Zenon DEF Held, Steady, Presented, ClientSwipePaired
<1> QED BY <1>1, AlwaysHeld, PTL

\* No trim truncates a slot with a window: a window that leaves the workspaces is one
\* whose removal was asked for.
THEOREM NoWindowLost == Spec => WindowsKept
<1> DEFINE A == \A w \in Windows :
                  villain.home[w] # NoSlot /\ villain'.home[w] = NoSlot => RemoveWindow(w)
<1>1. Held(villain) /\ [Next]_villain => [A]_villain
  <2> SUFFICES ASSUME Held(villain), Next, NEW w \in Windows,
                      villain.home[w] # NoSlot, villain'.home[w] = NoSlot
               PROVE  RemoveWindow(w)
    BY Zenon
  <2>1. PICK x \in Windows : /\ RemoveWindow(x)
                             /\ \A y \in Windows \ {x} : villain'.home[y] = villain.home[y]
    BY NextHeld DEF Accounted, Shelters
  <2>2. w = x
    BY <2>1
  <2> QED BY <2>1, <2>2
<1> HIDE DEF A
<1>2. Spec => [][A]_villain
  BY <1>1, AlwaysHeld, PTL DEF Spec
<1> QED BY <1>2 DEF WindowsKept, A

\* Whatever changes the slots, the active one, the home of a window or the overview
\* marks the state for publication, except for a rule that moves a window out of sight.
THEOREM ChangesPublished == Spec => MutationsPublished
<1> DEFINE A == View(villain') # View(villain) =>
                  villain'.dirty \/ PublishingStep \/ SilentRuleMove
<1>1. Held(villain) /\ [Next]_villain => [A]_villain
  <2> SUFFICES ASSUME Held(villain), Next PROVE A
    BY Zenon
  <2>1. Accounted
    BY NextHeld
  <2> QED BY <2>1, Zenon DEF Accounted, Reports
<1> HIDE DEF A
<1>2. Spec => [][A]_villain
  BY <1>1, AlwaysHeld, PTL DEF Spec
<1> QED BY <1>2 DEF MutationsPublished, A

\* A finger that lets go lands on the slot the preview showed: no handler in between
\* chooses another target for the same direction, and with skip_empty none that has
\* been emptied under the finger is activated.
THEOREM SwipesLandWhereShown == Spec => SwipeLandsWhereShown
<1>1. Held(villain) /\ [Next]_villain => [Lands]_villain
  BY NextLands
<1>2. Spec => [][Lands]_villain
  BY <1>1, AlwaysHeld, PTL DEF Spec
<1> QED BY <1>2 DEF SwipeLandsWhereShown, Lands
=============================================================================
