--------------------------- MODULE ControlsProofs ---------------------------
(***************************************************************************)
(* For every set of keys, modifiers and directions, every pad and every    *)
(* list of bindings: no button stays pressed but those a binding or a      *)
(* calibration left behind, the game is frozen once for being stopped and  *)
(* once for being calibrated, and bindings see what is held; except what   *)
(* keys that share a slot of kpress take from each other.                  *)
(*                                                                         *)
(* What handlers change is a state of GoodUi(HeldCodes), a set that each   *)
(* of their steps stays in.  The loops over bindings and over directions   *)
(* are recursive functions: that one exists, and stays in a set its step   *)
(* stays in, follows from the least number that is an exception.           *)
(***************************************************************************)
EXTENDS Controls, WellFoundedInduction, TLAPS

Modes == {"STARTED", "STOPPED", "PROMPT", "STOPPED_PROMPT"}

UiStates ==
  [events : Modes, freezes : Nat, pressed : SUBSET PadSet, down : SUBSET PadSet,
   codes : [PadSet -> SUBSET Codes], calibrating : BOOLEAN,
   first : Codes \cup {NoCode, Untold}, answers : Seq(Codes \cup {NoCode}),
   loose : SUBSET PadSet, restopped : BOOLEAN]

\* While releases are not seen, every button that is down counts as loose.
LooseWhileIdle(r) ==
  r.calibrating \/ r.events # "STARTED" => r.down \subseteq r.loose

\* Another button that is down has its control marked, and a code of it held.
PressedIsHeld(r, codes) ==
  \A p \in r.down \ r.loose : p \in r.pressed /\ r.codes[p] \cap codes # {}

FreezesCounted(r) ==
  ~r.restopped =>
    r.freezes = (IF r.events = "STARTED" THEN 0 ELSE 1) + (IF r.calibrating THEN 1 ELSE 0)

GoodUi(codes) ==
  {r \in UiStates : /\ Len(r.answers) <= Steps
                    /\ LooseWhileIdle(r) /\ PressedIsHeld(r, codes) /\ FreezesCounted(r)}

\* What is held, or was and has had its release taken for another key's.
HeldCodes == {CodeOf(stroke) : stroke \in held \cup missed} \cup {[dir |-> d] : d \in hat}

\* Only keys that share their slot in kpress lose what they typed.
KpressTells ==
  /\ \A stroke \in held : ~Shared(stroke.sym) => kpress[Slot[stroke.sym]] = stroke.typed
  /\ \A stroke \in missed : Shared(stroke.sym)

ControlsInv ==
  /\ held \subseteq Strokes /\ missed \subseteq Strokes
  /\ kpress \in [Slots -> Names \cup {Nothing}] /\ KpressTells
  /\ hat \subseteq ToSet(Dirs) /\ combos \subseteq Codes
  /\ CombosAreHeld
  /\ ui \in GoodUi(HeldCodes)

-----------------------------------------------------------------------------
(* Loops                                                                   *)

\* Of the numbers up to some bound that are in a set, one is the least.
LEMMA LeastOf ==
  ASSUME NEW T \in SUBSET Nat, T # {}
  PROVE  \E n \in T : \A m \in T : n <= m
<1> DEFINE R == OpToRel(<, Nat)
<1>1. PICK n \in T : \A m \in T : ~(<<m, n>> \in R)
  BY NatLessThanWellFounded, WFMin
<1>2. \A m \in T : ~(m < n)
  BY <1>1 DEF OpToRel
<1> QED BY <1>2

\* What a loop starts with and each round keeps, every round has.
LEMMA RunStays ==
  ASSUME NEW S, NEW N \in Nat, NEW f, f[0] \in S,
         \A n \in 1..N : f[n - 1] \in S => f[n] \in S
  PROVE  \A n \in 0..N : f[n] \in S
<1> DEFINE T == {n \in 0..N : f[n] \notin S}
<1> SUFFICES ASSUME T # {} PROVE FALSE
  OBVIOUS
<1>1. PICK n \in T : \A m \in T : n <= m
  <2>1. T \in SUBSET Nat
    OBVIOUS
  <2> QED BY <2>1, LeastOf
<1>2. n # 0
  OBVIOUS
<1>3. n \in 1..N /\ n - 1 \in 0..N
  BY <1>2
<1>4. n - 1 \notin T
  BY <1>1, <1>3
<1> QED BY <1>3, <1>4

HasRun(S, N, s, step) ==
  \E f \in [0..N -> S] : f[0] = s /\ \A n \in 1..N : f[n] = step[n][f[n - 1]]

\* A loop whose rounds stay in a set runs to its end.
LEMMA RunExists ==
  ASSUME NEW S, NEW N \in Nat, NEW s \in S, NEW step \in [1..N -> [S -> S]]
  PROVE  HasRun(S, N, s, step)
<1> DEFINE Runs(m, f) == /\ f \in [0..m -> S] /\ f[0] = s
                         /\ \A n \in 1..m : f[n] = step[n][f[n - 1]]
           T == {m \in 0..N : \A f : ~Runs(m, f)}
<1>1. T = {}
  <2> SUFFICES ASSUME T # {} PROVE FALSE
    OBVIOUS
  <2>1. PICK m \in T : \A k \in T : m <= k
    <3>1. T \in SUBSET Nat
      OBVIOUS
    <3> QED BY <3>1, LeastOf
  <2>2. m # 0
    <3>1. Runs(0, [n \in 0..0 |-> s])
      OBVIOUS
    <3> QED BY <3>1
  <2>3. m \in 1..N /\ m - 1 \in 0..N /\ m - 1 \notin T
    <3>1. m \in 0..N
      OBVIOUS
    <3> HIDE DEF T
    <3>2. m \in 1..N /\ m - 1 \in 0..N /\ ~(m <= m - 1)
      BY <2>2, <3>1
    <3> QED BY <2>1, <3>2
  <2>4. PICK f : Runs(m - 1, f)
    BY <2>3
  <2> DEFINE g == [n \in 0..m |-> IF n = m THEN step[m][f[m - 1]] ELSE f[n]]
  <2>5. f[m - 1] \in S
    BY <2>3, <2>4
  <2>6. g \in [0..m -> S]
    <3>1. step[m][f[m - 1]] \in S
      BY <2>3, <2>5
    <3>2. \A n \in 0..m : n # m => f[n] \in S
      BY <2>3, <2>4
    <3> QED BY <3>1, <3>2
  <2>7. g[0] = s
    BY <2>2, <2>3, <2>4
  <2>8. ASSUME NEW n \in 1..m PROVE g[n] = step[n][g[n - 1]]
    <3>1. CASE n = m
      BY <3>1, <2>3
    <3>2. CASE n # m
      BY <3>2, <2>3, <2>4
    <3> QED BY <3>1, <3>2
  <2>9. Runs(m, g)
    BY <2>6, <2>7, <2>8
  <2> QED BY <2>9, <2>1
<1>2. PICK f : Runs(N, f)
  BY <1>1
<1> QED BY <1>2 DEF HasRun

-----------------------------------------------------------------------------
(* The steps of the handlers                                               *)

LEMMA InitGood == UiInit \in GoodUi({})
<1>1. UiInit \in UiStates
  BY ControlsAssumption DEF UiInit, UiStates, Modes
<1>2. Len(UiInit.answers) <= Steps
  BY ControlsAssumption DEF UiInit, Steps
<1> QED BY <1>1, <1>2 DEF UiInit, GoodUi, LooseWhileIdle, PressedIsHeld, FreezesCounted

\* Stopping releases every control that is marked, so what is left is loose.
LEMMA StopGood ==
  ASSUME NEW codes, NEW r \in GoodUi(codes), NEW mode \in Modes \ {"STARTED"}
  PROVE  StopEvents(r, mode) \in GoodUi(codes)
<1> DEFINE q == StopEvents(r, mode)
<1>1. /\ r \in UiStates /\ Len(r.answers) <= Steps
      /\ PressedIsHeld(r, codes) /\ FreezesCounted(r)
  BY DEF GoodUi
<1>2. q = [r EXCEPT !.freezes = @ + 1, !.down = @ \ r.pressed, !.loose = @ \ r.pressed,
                    !.events = mode, !.pressed = {},
                    !.restopped = @ \/ r.events # "STARTED"]
  BY <1>1 DEF UiStates, StopEvents, Release, Freeze
<1>3. q \in UiStates
  <2> DEFINE twice == r.restopped \/ r.events # "STARTED"
  <2>1. twice \in BOOLEAN
    OBVIOUS
  <2>2. q = [r EXCEPT !.freezes = r.freezes + 1, !.down = r.down \ r.pressed,
                      !.loose = r.loose \ r.pressed,
                      !.events = mode, !.pressed = {}, !.restopped = twice]
    BY <1>1, <1>2 DEF UiStates
  <2>3. /\ r.freezes + 1 \in Nat /\ mode \in Modes
        /\ r.down \ r.pressed \in SUBSET PadSet /\ r.loose \ r.pressed \in SUBSET PadSet
    BY <1>1 DEF UiStates
  <2> HIDE DEF q, twice
  <2>4. /\ q.events \in Modes /\ q.freezes \in Nat /\ q.pressed \in SUBSET PadSet
        /\ q.down \in SUBSET PadSet /\ q.loose \in SUBSET PadSet
    BY <1>1, <2>2, <2>3 DEF UiStates
  <2>5. q.restopped \in BOOLEAN
    BY <1>1, <2>1, <2>2 DEF UiStates
  <2> QED BY <1>1, <2>2, <2>4, <2>5 DEF UiStates
<1>4. q.answers = r.answers /\ q.down \subseteq q.loose
  BY <1>1, <1>2 DEF UiStates, PressedIsHeld
<1>5. FreezesCounted(q)
  <2>1. CASE r.restopped \/ r.events # "STARTED"
    <3>1. q.restopped
      BY <1>1, <1>2, <2>1 DEF UiStates
    <3> QED BY <3>1 DEF FreezesCounted
  <2>2. CASE ~r.restopped /\ r.events = "STARTED"
    <3>1. /\ q.freezes = r.freezes + 1 /\ q.events = mode
          /\ q.calibrating = r.calibrating
      BY <1>1, <1>2 DEF UiStates
    <3>2. r.freezes = 0 + (IF r.calibrating THEN 1 ELSE 0)
      BY <1>1, <2>2 DEF FreezesCounted
    <3> QED BY <3>1, <3>2 DEF FreezesCounted
  <2> QED BY <2>1, <2>2
<1> QED BY <1>1, <1>3, <1>4, <1>5 DEF GoodUi, LooseWhileIdle, PressedIsHeld

LEMMA RestartGood ==
  ASSUME NEW codes, NEW r \in GoodUi(codes), r.events # "STARTED"
  PROVE  RestartEvents(r) \in GoodUi(codes)
<1>1. /\ r \in UiStates /\ Len(r.answers) <= Steps
      /\ LooseWhileIdle(r) /\ FreezesCounted(r)
  BY DEF GoodUi
<1>2. RestartEvents(r) = [r EXCEPT !.freezes = IF @ > 0 THEN @ - 1 ELSE 0,
                                   !.events = "STARTED"]
  BY <1>1 DEF UiStates, RestartEvents, Unfreeze
<1>3. RestartEvents(r) \in UiStates
  <2> DEFINE less == IF r.freezes > 0 THEN r.freezes - 1 ELSE 0
  <2>1. less \in Nat
    BY <1>1 DEF UiStates
  <2>2. RestartEvents(r) = [r EXCEPT !.freezes = less, !.events = "STARTED"]
    BY <1>1, <1>2 DEF UiStates
  <2> HIDE DEF less
  <2> QED BY <1>1, <2>1, <2>2 DEF UiStates, Modes
<1>4. FreezesCounted(RestartEvents(r))
  BY <1>1, <1>2 DEF UiStates, FreezesCounted
<1> QED BY <1>1, <1>2, <1>3, <1>4 DEF GoodUi, UiStates, LooseWhileIdle, PressedIsHeld

\* A change of mode from one stopped mode to another.
LEMMA ModeGood ==
  ASSUME NEW codes, NEW r \in GoodUi(codes), r.events # "STARTED",
         NEW mode \in Modes \ {"STARTED"}
  PROVE  [r EXCEPT !.events = mode] \in GoodUi(codes)
BY DEF GoodUi, UiStates, LooseWhileIdle, PressedIsHeld, FreezesCounted

LEMMA ReleaseGood ==
  ASSUME NEW codes, NEW after, NEW pads, NEW r \in GoodUi(codes),
         \A p \in r.pressed \ pads :
           r.codes[p] \cap codes # {} => r.codes[p] \cap after # {}
  PROVE  ReleaseControls(r, pads) \in GoodUi(after)
<1> DEFINE q == ReleaseControls(r, pads)
<1>1. /\ r \in UiStates /\ Len(r.answers) <= Steps /\ LooseWhileIdle(r)
      /\ PressedIsHeld(r, codes) /\ FreezesCounted(r)
  BY DEF GoodUi
<1>2. q = [r EXCEPT !.down = @ \ pads, !.loose = @ \ pads, !.pressed = @ \ pads]
  BY <1>1 DEF UiStates, ReleaseControls, Release
<1>3. q \in UiStates
  BY <1>1, <1>2 DEF UiStates
<1>4. PressedIsHeld(q, after)
  BY <1>1, <1>2 DEF UiStates, PressedIsHeld
<1>5. LooseWhileIdle(q) /\ FreezesCounted(q) /\ q.answers = r.answers
  BY <1>1, <1>2 DEF UiStates, LooseWhileIdle, FreezesCounted
<1> QED BY <1>1, <1>3, <1>4, <1>5 DEF GoodUi

LEMMA PressGood ==
  ASSUME NEW held1, NEW codes \in SUBSET held1, NEW r \in GoodUi(held1),
         r.events = "STARTED", ~r.calibrating
  PROVE  PressControls(r, codes) \in GoodUi(held1)
<1> DEFINE pads == UNION {PadsOf(r, c) : c \in codes}
           q == [r EXCEPT !.pressed = @ \cup pads, !.down = @ \cup pads, !.loose = @ \ pads]
           stopped == IF StopCode \in codes THEN StopEvents(q, "STOPPED") ELSE q
<1>1. /\ r \in UiStates /\ Len(r.answers) <= Steps
      /\ PressedIsHeld(r, held1) /\ FreezesCounted(r)
  BY DEF GoodUi
<1>2. \A p \in pads : p \in PadSet /\ r.codes[p] \cap held1 # {}
  BY DEF PadsOf
<1>3. q \in UiStates
  BY <1>1, <1>2 DEF UiStates
<1>4. PressedIsHeld(q, held1)
  <2> HIDE DEF pads
  <2> QED BY <1>1, <1>2 DEF UiStates, PressedIsHeld
<1>5. q.events = "STARTED" /\ ~q.calibrating /\ FreezesCounted(q) /\ q.answers = r.answers
  BY <1>1 DEF UiStates, FreezesCounted
<1>6. q \in GoodUi(held1)
  BY <1>1, <1>3, <1>4, <1>5 DEF GoodUi, LooseWhileIdle
<1>7. stopped \in GoodUi(held1)
  BY <1>6, StopGood DEF Modes
<1>8. PressControls(r, codes)
        = IF PromptCode \in codes THEN StopEvents(stopped, "PROMPT") ELSE stopped
  BY DEF PressControls
<1> HIDE DEF stopped
<1> QED BY <1>7, <1>8, StopGood DEF Modes

\* The code a step of a calibration gives a control is one of the codes.
LEMMA RecodeType ==
  ASSUME NEW c \in SUBSET Codes, NEW code \in Codes
  PROVE  Recode(c, code) \in SUBSET Codes
BY DEF Recode

LEMMA AnswerGood ==
  ASSUME NEW held1, NEW r \in GoodUi(held1), NEW code \in Codes \cup {NoCode},
         r.calibrating, Len(r.answers) < Steps
  PROVE  Answer(r, code) \in GoodUi(held1)
<1> DEFINE answers == Append(r.answers, code)
           Coded(i) == IF answers[i] = NoCode THEN r.codes[Pads[i]]
                       ELSE Recode(r.codes[Pads[i]], answers[i])
           pad(p) == CHOOSE i \in 1..Len(Pads) : Pads[i] = p
           recoded == [p \in PadSet |-> Coded(pad(p))]
           codes == IF Len(answers) = Steps /\ code # NoCode THEN recoded ELSE r.codes
<1>1. /\ r \in UiStates /\ LooseWhileIdle(r) /\ FreezesCounted(r)
  BY DEF GoodUi
<1>2. /\ r.answers \in Seq(Codes \cup {NoCode}) /\ r.codes \in [PadSet -> SUBSET Codes]
  BY <1>1 DEF UiStates
<1>3. /\ answers \in Seq(Codes \cup {NoCode}) /\ Len(answers) = Len(r.answers) + 1
      /\ Len(answers) <= Steps
  BY <1>2, ControlsAssumption DEF Steps
<1>4. ASSUME Len(answers) = Steps PROVE recoded \in [PadSet -> SUBSET Codes]
  <2> SUFFICES ASSUME NEW p \in PadSet PROVE Coded(pad(p)) \in SUBSET Codes
    OBVIOUS
  <2>1. \E i \in 1..Len(Pads) : Pads[i] = p
    BY ControlsAssumption DEF PadSet, ToSet
  <2>2. pad(p) \in 1..Len(Pads) /\ Pads[pad(p)] = p
    BY <2>1
  <2> HIDE DEF pad
  <2>3. Len(Pads) \in Nat /\ Len(answers) = Len(Pads) + 1
    BY <1>4, ControlsAssumption DEF Steps
  <2>4. pad(p) \in 1..Len(answers)
    BY <2>2, <2>3
  <2> HIDE DEF answers
  <2>5. answers[pad(p)] \in Codes \cup {NoCode}
    BY <1>3, <2>4
  <2> QED BY <1>2, <2>2, <2>5, RecodeType
<1>5. codes \in [PadSet -> SUBSET Codes]
  BY <1>2, <1>4
<1>6. Answer(r, code)
        = [r EXCEPT !.first = Untold, !.answers = answers, !.codes = codes]
  BY <1>1 DEF Answer, UiStates
<1> HIDE DEF answers, codes
<1>7. Answer(r, code) \in UiStates
  BY <1>1, <1>3, <1>5, <1>6 DEF UiStates
<1> QED BY <1>1, <1>3, <1>6, <1>7
        DEF GoodUi, UiStates, LooseWhileIdle, PressedIsHeld, FreezesCounted

\* A calibration keeps the counts, and starts with all that is down loose.
LEMMA CalibrateGood ==
  ASSUME NEW held1, NEW r \in GoodUi(held1), NEW code \in Codes \cup {NoCode}
  PROVE  Calibrate(r, code) \in GoodUi(held1)
<1>1. /\ r \in UiStates /\ Len(r.answers) <= Steps /\ LooseWhileIdle(r)
      /\ PressedIsHeld(r, held1) /\ FreezesCounted(r)
  BY DEF GoodUi
<1>2. CASE ~r.calibrating
  <2> DEFINE q == [r EXCEPT !.freezes = @ + 1, !.calibrating = TRUE,
                            !.loose = @ \cup r.down]
  <2>1. Calibrate(r, code) = q
    BY <1>1, <1>2 DEF Calibrate, Freeze, UiStates
  <2>2. q \in UiStates
    <3>1. r.freezes + 1 \in Nat /\ r.loose \cup r.down \in SUBSET PadSet
      BY <1>1 DEF UiStates
    <3>2. q = [r EXCEPT !.freezes = r.freezes + 1, !.calibrating = TRUE,
                        !.loose = r.loose \cup r.down]
      BY <1>1 DEF UiStates
    <3> HIDE DEF q
    <3> QED BY <1>1, <3>1, <3>2 DEF UiStates
  <2>3. q.down \subseteq q.loose /\ q.answers = r.answers /\ FreezesCounted(q)
    BY <1>1, <1>2 DEF UiStates, FreezesCounted
  <2> QED BY <1>1, <2>1, <2>2, <2>3 DEF GoodUi, LooseWhileIdle, PressedIsHeld
<1>3. CASE r.calibrating /\ Len(r.answers) = Steps
  <2> DEFINE less == IF r.freezes > 0 THEN r.freezes - 1 ELSE 0
             q == [r EXCEPT !.freezes = less, !.calibrating = FALSE, !.answers = <<>>]
  <2>1. Calibrate(r, code) = q
    BY <1>1, <1>3 DEF Calibrate, Unfreeze, UiStates
  <2>2. less \in Nat
    BY <1>1 DEF UiStates
  <2>3. FreezesCounted(q)
    BY <1>1, <1>3 DEF UiStates, FreezesCounted
  <2>4. r.down \subseteq r.loose
    BY <1>1, <1>3 DEF LooseWhileIdle
  <2>5. Len(<<>>) <= Steps
    BY ControlsAssumption DEF Steps
  <2> HIDE DEF less
  <2>6. q \in UiStates /\ q.down = r.down /\ q.loose = r.loose /\ q.answers = <<>>
    <3>1. \A seq : seq = <<>> => seq \in Seq(Codes \cup {NoCode})
      OBVIOUS
    <3>2. /\ q.answers = <<>> /\ q.freezes \in Nat /\ q.calibrating \in BOOLEAN
          /\ q.down = r.down /\ q.loose = r.loose
      BY <1>1, <2>2 DEF UiStates
    <3>3. q.answers \in Seq(Codes \cup {NoCode})
      BY <3>1, <3>2
    <3> QED BY <1>1, <3>2, <3>3 DEF UiStates
  <2> HIDE DEF q
  <2> QED BY <2>1, <2>3, <2>4, <2>5, <2>6 DEF GoodUi, LooseWhileIdle, PressedIsHeld
<1>4. CASE r.calibrating /\ Len(r.answers) < Steps /\ r.first = Untold
  <2>1. Calibrate(r, code) = [r EXCEPT !.first = code]
    BY <1>4, ControlsAssumption, <1>1 DEF Calibrate, UiStates, Steps
  <2> QED BY <1>1, <2>1 DEF GoodUi, UiStates, LooseWhileIdle, PressedIsHeld, FreezesCounted
<1>5. CASE r.calibrating /\ Len(r.answers) < Steps /\ r.first # Untold
  <2>1. Calibrate(r, code) = Answer(r, IF code = r.first THEN code ELSE NoCode)
    BY <1>5, ControlsAssumption, <1>1 DEF Calibrate, UiStates, Steps
  <2> QED BY <1>5, <2>1, AnswerGood
<1> QED
  <2>1. Len(r.answers) \in Nat /\ Steps \in Nat /\ r.calibrating \in BOOLEAN
    BY <1>1, ControlsAssumption DEF UiStates, Steps
  <2> QED BY <1>1, <1>2, <1>3, <1>4, <1>5, <2>1

\* What a binding does, whatever state the bindings before it left.
LEMMA PerformGood ==
  ASSUME NEW held1, NEW r \in GoodUi(held1), NEW isPress \in BOOLEAN,
         NEW to \in PadSet \cup Commands
  PROVE  Perform(r, to, isPress) \in GoodUi(held1)
<1>1. /\ r \in UiStates /\ Len(r.answers) <= Steps /\ LooseWhileIdle(r)
      /\ PressedIsHeld(r, held1) /\ FreezesCounted(r)
  BY DEF GoodUi
<1>2. CASE to \in PadSet /\ isPress
  <2> DEFINE q == [r EXCEPT !.down = @ \cup {to}, !.loose = @ \cup {to}]
  <2>1. Perform(r, to, isPress) = q
    BY <1>2, ControlsAssumption DEF Perform, Commands
  <2>2. q \in UiStates /\ q.answers = r.answers /\ FreezesCounted(q)
    BY <1>1, <1>2 DEF UiStates, FreezesCounted
  <2>3. LooseWhileIdle(q) /\ PressedIsHeld(q, held1)
    BY <1>1 DEF UiStates, LooseWhileIdle, PressedIsHeld
  <2> QED BY <1>1, <2>1, <2>2, <2>3 DEF GoodUi
<1>3. CASE to \in PadSet /\ ~isPress
  <2> DEFINE q == [r EXCEPT !.down = @ \ {to}, !.loose = @ \ {to}]
  <2>1. Perform(r, to, isPress) = q
    BY <1>3, ControlsAssumption DEF Perform, Release, Commands
  <2>2. q \in UiStates /\ q.answers = r.answers /\ FreezesCounted(q)
    BY <1>1 DEF UiStates, FreezesCounted
  <2>3. LooseWhileIdle(q) /\ PressedIsHeld(q, held1)
    BY <1>1 DEF UiStates, LooseWhileIdle, PressedIsHeld
  <2> QED BY <1>1, <2>1, <2>2, <2>3 DEF GoodUi
<1>4. CASE to \notin PadSet /\ ~isPress
  BY <1>4 DEF Perform
<1>5. CASE to = "dgen_stop" /\ isPress
  <2>1. Perform(r, to, isPress) = StopEvents(r, "STOPPED")
    BY <1>5, ControlsAssumption DEF Perform, Commands
  <2> QED BY <2>1, StopGood DEF Modes
<1>6. CASE to = "dgen_prompt" /\ isPress
  <2>1. Perform(r, to, isPress) = StopEvents(r, "PROMPT")
    BY <1>6, ControlsAssumption DEF Perform, Commands
  <2> QED BY <2>1, StopGood DEF Modes
<1>7. CASE to = "calibrate" /\ isPress
  <2>1. Perform(r, to, isPress) = Calibrate(r, NoCode)
    BY <1>7, ControlsAssumption DEF Perform, Commands
  <2> QED BY <2>1, CalibrateGood
<1> QED BY <1>2, <1>3, <1>4, <1>5, <1>6, <1>7 DEF Commands

-----------------------------------------------------------------------------
(* The loops of the handlers                                               *)

\* However many bindings are fulfilled, and whatever each of them does.
LEMMA BindingsGood ==
  ASSUME NEW held1, NEW s \in GoodUi(held1), NEW down, NEW isPress \in BOOLEAN
  PROVE  PerformBindings(s, down, isPress) \in GoodUi(held1)
<1> DEFINE S == GoodUi(held1)
           N == Len(Bindings)
           Round(n, q) == IF Bindings[n].items \subseteq down
                          THEN Perform(q, Bindings[n].to, isPress) ELSE q
           step == [n \in 1..N |-> [q \in S |-> Round(n, q)]]
           IsRun(f) == f = [n \in 0..N |-> IF n = 0 THEN s ELSE Round(n, f[n - 1])]
           upTo == CHOOSE f : IsRun(f)
<1>1. N \in Nat
  BY ControlsAssumption
<1>2. ASSUME NEW n \in 1..N, NEW q \in S PROVE Round(n, q) \in S
  <2>1. Bindings[n].to \in PadSet \cup Commands
    <3> DEFINE B == [items : (SUBSET Codes) \ {{}}, to : PadSet \cup Commands]
    <3>1. Bindings \in Seq(B)
      BY ControlsAssumption
    <3>2. Bindings[n] \in B
      <4> HIDE DEF B
      <4> QED BY <3>1
    <3> QED BY <3>2
  <2>2. Perform(q, Bindings[n].to, isPress) \in S
    BY <2>1, PerformGood
  <2> QED BY <2>2
<1>3. PerformBindings(s, down, isPress) = upTo[N]
  BY DEF PerformBindings
<1> HIDE DEF S, N, Round
<1>4. s \in S
  BY DEF S
<1>5. step \in [1..N -> [S -> S]]
  BY <1>2
<1>6. PICK f \in [0..N -> S] :
        f[0] = s /\ \A n \in 1..N : f[n] = step[n][f[n - 1]]
  <2> HIDE DEF step
  <2>1. HasRun(S, N, s, step)
    BY <1>1, <1>4, <1>5, RunExists
  <2> QED BY <2>1 DEF HasRun
<1>7. \A n \in 1..N : f[n - 1] \in S /\ step[n][f[n - 1]] = Round(n, f[n - 1])
  <2> SUFFICES ASSUME NEW n \in 1..N
               PROVE  f[n - 1] \in S /\ step[n][f[n - 1]] = Round(n, f[n - 1])
    OBVIOUS
  <2>1. f[n - 1] \in S
    BY <1>1, <1>6
  <2> QED BY <2>1
<1>8. IsRun(f)
  <2> HIDE DEF step
  <2>1. \A n \in 0..N : n # 0 => n \in 1..N
    BY <1>1
  <2>2. \A n \in 0..N : f[n] = IF n = 0 THEN s ELSE Round(n, f[n - 1])
    BY <1>6, <1>7, <2>1
  <2> QED BY <1>6, <2>2
<1>9. IsRun(upTo)
  <2> HIDE DEF IsRun
  <2> QED BY <1>8
<1>10. upTo[0] = s /\ \A n \in 1..N : upTo[n] = Round(n, upTo[n - 1])
  <2> HIDE DEF upTo
  <2> QED BY <1>1, <1>9
<1>11. \A n \in 1..N : upTo[n - 1] \in S => upTo[n] \in S
  <2> HIDE DEF upTo
  <2> QED BY <1>2, <1>10
<1>12. upTo[N] \in S
  <2> HIDE DEF upTo
  <2>1. \A n \in 0..N : upTo[n] \in S
    BY <1>1, <1>4, <1>10, <1>11, RunStays
  <2> QED BY <1>1, <2>1
<1> QED BY <1>3, <1>12 DEF S

\* However many directions change, each looks the bindings up.
LEMMA DirectionsGood ==
  ASSUME NEW held1, NEW s \in GoodUi(held1), NEW dirs, NEW down, NEW isPress \in BOOLEAN
  PROVE  BindingsOf(s, dirs, down, isPress) \in GoodUi(held1)
<1> DEFINE S == GoodUi(held1)
           N == Len(Dirs)
           Round(n, q) == IF Dirs[n] \in dirs
                          THEN PerformBindings(q, down, isPress) ELSE q
           step == [n \in 1..N |-> [q \in S |-> Round(n, q)]]
           IsRun(f) == f = [n \in 0..N |-> IF n = 0 THEN s ELSE Round(n, f[n - 1])]
           upTo == CHOOSE f : IsRun(f)
<1>1. N \in Nat
  BY ControlsAssumption
<1>2. ASSUME NEW n \in 1..N, NEW q \in S PROVE Round(n, q) \in S
  BY BindingsGood
<1>3. BindingsOf(s, dirs, down, isPress) = upTo[N]
  BY DEF BindingsOf
<1> HIDE DEF S, N, Round
<1>4. s \in S
  BY DEF S
<1>5. step \in [1..N -> [S -> S]]
  BY <1>2
<1>6. PICK f \in [0..N -> S] :
        f[0] = s /\ \A n \in 1..N : f[n] = step[n][f[n - 1]]
  <2> HIDE DEF step
  <2>1. HasRun(S, N, s, step)
    BY <1>1, <1>4, <1>5, RunExists
  <2> QED BY <2>1 DEF HasRun
<1>7. \A n \in 1..N : f[n - 1] \in S /\ step[n][f[n - 1]] = Round(n, f[n - 1])
  <2> SUFFICES ASSUME NEW n \in 1..N
               PROVE  f[n - 1] \in S /\ step[n][f[n - 1]] = Round(n, f[n - 1])
    OBVIOUS
  <2>1. f[n - 1] \in S
    BY <1>1, <1>6
  <2> QED BY <2>1
<1>8. IsRun(f)
  <2> HIDE DEF step
  <2>1. \A n \in 0..N : n # 0 => n \in 1..N
    BY <1>1
  <2>2. \A n \in 0..N : f[n] = IF n = 0 THEN s ELSE Round(n, f[n - 1])
    BY <1>6, <1>7, <2>1
  <2> QED BY <1>6, <2>2
<1>9. IsRun(upTo)
  <2> HIDE DEF IsRun
  <2> QED BY <1>8
<1>10. upTo[0] = s /\ \A n \in 1..N : upTo[n] = Round(n, upTo[n - 1])
  <2> HIDE DEF upTo
  <2> QED BY <1>1, <1>9
<1>11. \A n \in 1..N : upTo[n - 1] \in S => upTo[n] \in S
  <2> HIDE DEF upTo
  <2> QED BY <1>2, <1>10
<1>12. upTo[N] \in S
  <2> HIDE DEF upTo
  <2>1. \A n \in 0..N : upTo[n] \in S
    BY <1>1, <1>4, <1>10, <1>11, RunStays
  <2> QED BY <1>1, <2>1
<1> QED BY <1>3, <1>12 DEF S

\* However many directions a calibration is told, and whether it ends or not.
LEMMA CalibrateAllGood ==
  ASSUME NEW held1, NEW s \in GoodUi(held1), NEW dirs
  PROVE  CalibrateAll(s, dirs) \in GoodUi(held1)
<1> DEFINE S == GoodUi(held1)
           N == Len(Dirs)
           Round(n, q) == IF Dirs[n] \in dirs /\ q.calibrating
                          THEN Calibrate(q, [dir |-> Dirs[n]]) ELSE q
           step == [n \in 1..N |-> [q \in S |-> Round(n, q)]]
           IsRun(f) == f = [n \in 0..N |-> IF n = 0 THEN s ELSE Round(n, f[n - 1])]
           upTo == CHOOSE f : IsRun(f)
<1>1. N \in Nat
  BY ControlsAssumption
<1>2. ASSUME NEW n \in 1..N, NEW q \in S PROVE Round(n, q) \in S
  <2>1. [dir |-> Dirs[n]] \in Codes
    <3>1. Dirs[n] \in ToSet(Dirs)
      <4>1. n \in DOMAIN Dirs
        BY ControlsAssumption
      <4> QED BY <4>1 DEF ToSet
    <3> QED BY <3>1 DEF Codes, DirCodes
  <2>2. Calibrate(q, [dir |-> Dirs[n]]) \in S
    BY <2>1, CalibrateGood
  <2> QED BY <2>2
<1>3. CalibrateAll(s, dirs) = upTo[N]
  BY DEF CalibrateAll
<1> HIDE DEF S, N, Round
<1>4. s \in S
  BY DEF S
<1>5. step \in [1..N -> [S -> S]]
  BY <1>2
<1>6. PICK f \in [0..N -> S] :
        f[0] = s /\ \A n \in 1..N : f[n] = step[n][f[n - 1]]
  <2> HIDE DEF step
  <2>1. HasRun(S, N, s, step)
    BY <1>1, <1>4, <1>5, RunExists
  <2> QED BY <2>1 DEF HasRun
<1>7. \A n \in 1..N : f[n - 1] \in S /\ step[n][f[n - 1]] = Round(n, f[n - 1])
  <2> SUFFICES ASSUME NEW n \in 1..N
               PROVE  f[n - 1] \in S /\ step[n][f[n - 1]] = Round(n, f[n - 1])
    OBVIOUS
  <2>1. f[n - 1] \in S
    BY <1>1, <1>6
  <2> QED BY <2>1
<1>8. IsRun(f)
  <2> HIDE DEF step
  <2>1. \A n \in 0..N : n # 0 => n \in 1..N
    BY <1>1
  <2>2. \A n \in 0..N : f[n] = IF n = 0 THEN s ELSE Round(n, f[n - 1])
    BY <1>6, <1>7, <2>1
  <2> QED BY <1>6, <2>2
<1>9. IsRun(upTo)
  <2> HIDE DEF IsRun
  <2> QED BY <1>8
<1>10. upTo[0] = s /\ \A n \in 1..N : upTo[n] = Round(n, upTo[n - 1])
  <2> HIDE DEF upTo
  <2> QED BY <1>1, <1>9
<1>11. \A n \in 1..N : upTo[n - 1] \in S => upTo[n] \in S
  <2> HIDE DEF upTo
  <2> QED BY <1>2, <1>10
<1>12. upTo[N] \in S
  <2> HIDE DEF upTo
  <2>1. \A n \in 0..N : upTo[n] \in S
    BY <1>1, <1>4, <1>10, <1>11, RunStays
  <2> QED BY <1>1, <2>1
<1> QED BY <1>3, <1>12 DEF S

-----------------------------------------------------------------------------
(* The events                                                              *)

\* A key is no joystick direction.
LEMMA KeyIsNoDir ==
  ASSUME NEW key, NEW mods
  PROVE  ~IsDir(Code(key, mods))
<1> SUFFICES ASSUME NEW d, Code(key, mods) = [dir |-> d] PROVE FALSE
  BY DEF IsDir, DirCodes
<1>1. DOMAIN [key |-> key, mods |-> mods] = {"key", "mods"} /\ DOMAIN [dir |-> d] = {"dir"}
  OBVIOUS
<1> QED BY <1>1 DEF Code

\* As long as releases are not seen, it does not matter what is held.
LEMMA IdleGood ==
  ASSUME NEW codes, NEW after, NEW r \in GoodUi(codes),
         r.calibrating \/ r.events # "STARTED"
  PROVE  r \in GoodUi(after)
BY DEF GoodUi, LooseWhileIdle, PressedIsHeld

\* Nor does it matter that more is held.
LEMMA MoreHeldGood ==
  ASSUME NEW codes, NEW more, NEW r \in GoodUi(codes)
  PROVE  r \in GoodUi(codes \cup more)
BY DEF GoodUi, PressedIsHeld

LEMMA PromptGood ==
  ASSUME NEW codes, NEW r \in GoodUi(codes), r.events \in {"PROMPT", "STOPPED_PROMPT"},
         NEW did \in {"edit", "escape", "enter", "calibrate"}
  PROVE  PromptKey(r, did) \in GoodUi(codes)
<1> DEFINE ran(q) == IF r.events = "STOPPED_PROMPT" THEN q ELSE RestartEvents(q)
<1>1. r.events # "STARTED"
  OBVIOUS
<1>2. CASE did = "edit"
  BY <1>2 DEF PromptKey
<1>3. CASE did = "escape"
  <2>1. PromptKey(r, did) = IF r.events = "STOPPED_PROMPT"
                            THEN [r EXCEPT !.events = "STOPPED"] ELSE RestartEvents(r)
    BY <1>3 DEF PromptKey
  <2>2. [r EXCEPT !.events = "STOPPED"] \in GoodUi(codes)
    BY <1>1, ModeGood DEF Modes
  <2> QED BY <1>1, <2>1, <2>2, RestartGood
<1>4. CASE did = "enter"
  <2>1. PromptKey(r, did) = ran(r)
    BY <1>4 DEF PromptKey
  <2> QED BY <1>1, <2>1, RestartGood
<1>5. CASE did = "calibrate"
  <2> DEFINE q == Calibrate(r, NoCode)
  <2>1. PromptKey(r, did) = ran(q)
    BY <1>5 DEF PromptKey
  <2>2. q \in GoodUi(codes)
    BY CalibrateGood
  <2>3. q.events = r.events
    <3>1. r \in UiStates
      BY DEF GoodUi
    <3> QED BY <3>1 DEF Calibrate, Answer, Freeze, Unfreeze, UiStates
  <2> HIDE DEF q
  <2> QED BY <1>1, <2>1, <2>2, <2>3, RestartGood
<1> QED BY <1>2, <1>3, <1>4, <1>5

\* The code of a stroke is a code of a key.
LEMMA StrokeCode ==
  ASSUME NEW stroke \in Strokes
  PROVE  /\ CodeOf(stroke) \in KeyCodes /\ ~IsDir(CodeOf(stroke))
         /\ \E mods \in Modifiers : CodeOf(stroke) = Code(CodeOf(stroke).key, mods)
<1>1. /\ NameOf(stroke.sym, stroke.typed) \in Names
      /\ stroke.mods \in Modifiers /\ stroke.mods \ {Shift} \in Modifiers
  BY ControlsAssumption DEF Strokes, NameOf, Names
<1>2. PICK name \in Names, mods \in Modifiers : CodeOf(stroke) = Code(name, mods)
  BY <1>1 DEF CodeOf
<1>3. CodeOf(stroke).key = name
  BY <1>2 DEF Code
<1> QED BY <1>2, <1>3, KeyIsNoDir DEF KeyCodes

LEMMA KeyDownGood ==
  ASSUME ControlsInv, NEW key \in Keys, NEW mods \in Modifiers,
         NEW typed \in Typed[key][mods], KeyDown(key, typed, mods)
  PROVE  ControlsInv'
<1> DEFINE stroke == [sym |-> key, typed |-> typed, mods |-> mods]
           code == CodeOf(stroke)
<1>1. /\ held' = held \cup {stroke} /\ combos' = combos \cup {code}
      /\ kpress' = [kpress EXCEPT ![Slot[key]] = typed]
      /\ hat' = hat /\ missed' = missed
      /\ IsUp(key) \/ stroke \in held
  BY DEF KeyDown
<1>2. /\ stroke \in Strokes /\ typed \in Names \cup {Nothing}
      /\ stroke.sym = key /\ stroke.typed = typed
  <2>1. typed \in Names \cup {Nothing}
    BY DEF Names, Characters
  <2> QED BY <2>1 DEF Strokes
<1> HIDE DEF stroke
<1>3. code \in KeyCodes /\ code \in Codes /\ ~IsDir(code)
  BY <1>2, StrokeCode DEF Codes
<1>4. held' \subseteq Strokes /\ combos' \subseteq Codes
  BY <1>1, <1>2, <1>3 DEF ControlsInv
<1>5. kpress' \in [Slots -> Names \cup {Nothing}]
  BY <1>1, <1>2 DEF ControlsInv
<1>6. KpressTells'
  <2>1. ASSUME NEW other \in held', ~Shared(other.sym)
        PROVE  kpress'[Slot[other.sym]] = other.typed
    <3>1. other.sym \in Keys /\ Slot[other.sym] \in Slots
      BY <1>4, <2>1 DEF Strokes, Slots
    <3>2. CASE other = stroke
      BY <1>1, <1>2, <3>1, <3>2 DEF ControlsInv
    <3>3. CASE other # stroke /\ other.sym # key
      <4>1. Slot[other.sym] # Slot[key]
        BY <2>1, <3>1, <3>3 DEF Shared
      <4>2. kpress[Slot[other.sym]] = other.typed
        BY <1>1, <2>1, <3>3 DEF ControlsInv, KpressTells
      <4> QED BY <1>1, <3>1, <4>1, <4>2 DEF ControlsInv
    <3>4. CASE other # stroke /\ other.sym = key
      <4>1. other \in held /\ stroke \in held
        BY <1>1, <2>1, <3>4 DEF IsUp
      <4>2. kpress[Slot[key]] = other.typed /\ kpress[Slot[key]] = typed
        BY <1>2, <2>1, <3>4, <4>1 DEF ControlsInv, KpressTells
      <4> QED BY <1>1, <3>1, <3>4, <4>2 DEF ControlsInv
    <3> QED BY <3>2, <3>3, <3>4
  <2>2. \A other \in missed' : Shared(other.sym)
    BY <1>1 DEF ControlsInv, KpressTells
  <2> QED BY <2>1, <2>2 DEF KpressTells
<1>7. CombosAreHeld'
  <2> SUFFICES ASSUME NEW c \in combos'
               PROVE  IF IsDir(c) THEN c.dir \in hat'
                      ELSE \/ \E other \in held' : CodeOf(other) = c
                           \/ \E m, n \in c.mods : m # n
                           \/ \E other \in missed' : Shared(other.sym) /\ CodeOf(other) = c
    BY DEF CombosAreHeld
  <2>1. CASE c = code
    BY <1>1, <1>3, <2>1
  <2>2. CASE c # code
    BY <1>1, <2>2 DEF ControlsInv, CombosAreHeld
  <2> QED BY <2>1, <2>2
<1>8. HeldCodes' = HeldCodes \cup {code}
  BY <1>1 DEF HeldCodes
<1>9. ui \in GoodUi(HeldCodes')
  BY <1>8, MoreHeldGood DEF ControlsInv
<1>10. ui' \in GoodUi(HeldCodes')
  <2>1. CASE ui.calibrating /\ ui' = Calibrate(ui, code)
    BY <1>3, <1>9, <2>1, CalibrateGood
  <2>2. CASE /\ ~ui.calibrating /\ ui.events \in {"PROMPT", "STOPPED_PROMPT"}
             /\ \E did \in {"edit", "escape", "enter", "calibrate"} : ui' = PromptKey(ui, did)
    BY <1>9, <2>2, PromptGood
  <2>3. CASE ~ui.calibrating /\ ui.events = "STOPPED" /\ ui' = StoppedKey(ui, code)
    <3>1. [ui EXCEPT !.events = "STOPPED_PROMPT"] \in GoodUi(HeldCodes')
      BY <1>9, <2>3, ModeGood DEF Modes
    <3>2. RestartEvents(ui) \in GoodUi(HeldCodes')
      BY <1>9, <2>3, RestartGood
    <3>3. ui' \in {[ui EXCEPT !.events = "STOPPED_PROMPT"], RestartEvents(ui), ui}
      BY <2>3 DEF StoppedKey
    <3> QED BY <1>9, <3>1, <3>2, <3>3
  <2>4. CASE Started /\ ui' = PerformBindings(PressControls(ui, {code}), combos', TRUE)
    <3>1. {code} \in SUBSET (HeldCodes')
      BY <1>8
    <3>2. PressControls(ui, {code}) \in GoodUi(HeldCodes')
      BY <1>9, <2>4, <3>1, PressGood DEF Started
    <3> QED BY <2>4, <3>2, BindingsGood
  <2> QED BY <2>1, <2>2, <2>3, <2>4 DEF KeyDown, code, stroke
<1> QED BY <1>1, <1>4, <1>5, <1>6, <1>7, <1>10 DEF ControlsInv

LEMMA KeyUpGood ==
  ASSUME ControlsInv, NEW key \in Keys, KeyUp(key)
  PROVE  ControlsInv'
<1> DEFINE name == NameOf(key, kpress[Slot[key]])
           up == {stroke \in held : stroke.sym = key}
<1>1. /\ held' = held \ up /\ hat' = hat
      /\ kpress' = [kpress EXCEPT ![Slot[key]] = Nothing]
      /\ missed' = {stroke \in missed \cup up : CodeOf(stroke).key # name}
      /\ combos' = combos \ Forgotten(name)
  BY DEF KeyUp
<1>2. /\ held \subseteq Strokes /\ missed \subseteq Strokes
      /\ kpress \in [Slots -> Names \cup {Nothing}] /\ KpressTells
      /\ combos \subseteq Codes /\ CombosAreHeld
  BY DEF ControlsInv
<1>3. \A stroke \in Strokes :
        /\ stroke.sym \in Keys /\ Slot[stroke.sym] \in Slots
        /\ \E mods \in Modifiers : CodeOf(stroke) = Code(CodeOf(stroke).key, mods)
  BY StrokeCode DEF Strokes, Slots
<1> HIDE DEF name
<1>4. \A stroke \in up : CodeOf(stroke).key # name => Shared(key)
  BY <1>2 DEF KpressTells, CodeOf, Code, name
<1>5. \A stroke \in (held \cup missed) \ (held' \cup missed') : CodeOf(stroke).key = name
  BY <1>1
<1>6. \A stroke \in missed' : stroke \in Strokes /\ Shared(stroke.sym)
  BY <1>1, <1>2, <1>4 DEF KpressTells
<1>7. KpressTells'
  <2>1. ASSUME NEW other \in held', ~Shared(other.sym)
        PROVE  kpress'[Slot[other.sym]] = other.typed
    <3>1. other \in held /\ other.sym # key /\ other.sym \in Keys
      BY <1>1, <1>2, <1>3, <2>1
    <3>2. Slot[other.sym] # Slot[key]
      BY <2>1, <3>1 DEF Shared
    <3>3. kpress[Slot[other.sym]] = other.typed
      BY <1>2, <2>1, <3>1 DEF KpressTells
    <3> QED BY <1>1, <1>2, <1>3, <3>1, <3>2, <3>3
  <2> QED BY <1>6, <2>1 DEF KpressTells
<1>8. CombosAreHeld'
  <2> SUFFICES ASSUME NEW code \in combos', ~IsDir(code),
                      ~(\E stroke \in held' : CodeOf(stroke) = code),
                      ~(\E stroke \in missed' : Shared(stroke.sym) /\ CodeOf(stroke) = code)
               PROVE  \E m, n \in code.mods : m # n
    BY <1>1, <1>2 DEF CombosAreHeld
  <2>1. code \in combos /\ code \notin Forgotten(name)
    BY <1>1
  <2>2. CASE \E stroke \in held \cup missed : CodeOf(stroke) = code
    <3>1. PICK stroke \in held \cup missed : CodeOf(stroke) = code
      BY <2>2
    <3>2. stroke \notin held' \cup missed' /\ stroke \in Strokes
      BY <1>2, <1>6, <3>1
    <3>3. PICK mods \in Modifiers : code = Code(name, mods)
      BY <1>3, <1>5, <3>1, <3>2
    <3>4. mods # {} /\ \A m \in UNION Modifiers : mods # {m}
      BY <2>1, <3>3 DEF Forgotten
    <3>5. PICK m \in mods : TRUE
      BY <3>4
    <3>6. m \in UNION Modifiers
      BY <3>3
    <3>7. \E n \in mods : n # m
      BY <3>4, <3>5, <3>6
    <3>8. code.mods = mods
      BY <3>3 DEF Code
    <3> QED BY <3>5, <3>7, <3>8
  <2>3. CASE ~(\E stroke \in held \cup missed : CodeOf(stroke) = code)
    BY <1>2, <2>1, <2>3 DEF CombosAreHeld
  <2> QED BY <2>2, <2>3
<1>9. ui' \in GoodUi(HeldCodes')
  <2>1. CASE Started
    <3> DEFINE free == {p \in PadSet : ComesUp(name, p)}
    <3>1. ui' = PerformBindings(ReleaseControls(ui, free), combos', FALSE)
      BY <2>1 DEF KeyUp, name
    <3>2. ui.pressed \subseteq PadSet
      BY DEF ControlsInv, GoodUi, UiStates
    <3>3. ASSUME NEW p \in ui.pressed \ free, NEW c \in ui.codes[p] \cap HeldCodes
          PROVE  c \in HeldCodes'
      <4>1. CASE \E stroke \in held \cup missed : CodeOf(stroke) = c
        <5>1. PICK stroke \in held \cup missed : CodeOf(stroke) = c
          BY <4>1
        <5>2. PICK mods \in Modifiers : c = Code(c.key, mods)
          BY <1>2, <1>3, <5>1
        <5>3. c.key # name
          BY <3>2, <3>3, <5>2 DEF ComesUp
        <5>4. stroke \in held' \cup missed'
          BY <1>5, <5>1, <5>3
        <5> QED BY <5>1, <5>4 DEF HeldCodes
      <4>2. CASE ~(\E stroke \in held \cup missed : CodeOf(stroke) = c)
        BY <1>1, <3>3, <4>2 DEF HeldCodes
      <4> QED BY <4>1, <4>2
    <3>4. \A p \in ui.pressed \ free :
            ui.codes[p] \cap HeldCodes # {} => ui.codes[p] \cap HeldCodes' # {}
      BY <3>3
    <3>5. ReleaseControls(ui, free) \in GoodUi(HeldCodes')
      <4> HIDE DEF free
      <4> QED BY <3>4, ReleaseGood DEF ControlsInv
    <3> QED BY <3>1, <3>5, BindingsGood
  <2>2. CASE ~Started
    <3>1. ui' = ui
      BY <2>2 DEF KeyUp
    <3> QED BY <2>2, <3>1, IdleGood DEF Started, ControlsInv
  <2> QED BY <2>1, <2>2
<1>10. held' \subseteq Strokes /\ missed' \subseteq Strokes /\ combos' \subseteq Codes
  BY <1>1, <1>2, <1>6
<1>11. kpress' \in [Slots -> Names \cup {Nothing}]
  BY <1>1, <1>2
<1> QED BY <1>1, <1>7, <1>8, <1>9, <1>10, <1>11 DEF ControlsInv

LEMMA HatGood ==
  ASSUME ControlsInv, NEW dirs \in SUBSET ToSet(Dirs), HatMotion(dirs)
  PROVE  ControlsInv'
<1> DEFINE plist == {[dir |-> d] : d \in dirs}
           rlist == DirCodes \ plist
           up == (UNION {PadsOf(ui, c) : c \in rlist}) \cap ui.pressed
           controls == PressControls(ReleaseControls(ui, up), plist)
           released == BindingsOf(controls, ToSet(Dirs) \ dirs, combos', FALSE)
<1>1. /\ held' = held /\ missed' = missed /\ kpress' = kpress
      /\ hat' = dirs /\ combos' = (combos \ rlist) \cup plist
      /\ ui' = CASE ui.events # "STARTED" -> ui
                  [] ui.events = "STARTED" /\ ui.calibrating -> CalibrateAll(ui, dirs)
                  [] Started -> BindingsOf(released, dirs, combos', TRUE)
  BY DEF HatMotion
<1>2. plist \subseteq DirCodes
  BY DEF DirCodes
<1>3. combos' \subseteq Codes
  BY <1>1, <1>2 DEF ControlsInv, Codes
<1>4. CombosAreHeld'
  <2> SUFFICES ASSUME NEW code \in combos'
               PROVE  IF IsDir(code) THEN code.dir \in dirs
                      ELSE \/ \E stroke \in held : CodeOf(stroke) = code
                           \/ \E m, n \in code.mods : m # n
                           \/ \E stroke \in missed :
                                Shared(stroke.sym) /\ CodeOf(stroke) = code
    BY <1>1 DEF CombosAreHeld
  <2>1. CASE code \in plist
    BY <1>2, <2>1 DEF IsDir
  <2>2. CASE code \notin plist
    BY <1>1, <2>2 DEF IsDir, ControlsInv, CombosAreHeld
  <2> QED BY <2>1, <2>2
<1>5. ui' \in GoodUi(HeldCodes')
  <2>1. CASE ui.events # "STARTED"
    <3>1. ui' = ui
      BY <1>1, <2>1 DEF Started
    <3> QED BY <2>1, <3>1, IdleGood DEF ControlsInv
  <2>2. CASE ui.events = "STARTED" /\ ui.calibrating
    <3>1. ui' = CalibrateAll(ui, dirs)
      BY <1>1, <2>2 DEF Started
    <3>2. ui \in GoodUi(HeldCodes')
      BY <2>2, IdleGood DEF ControlsInv
    <3> QED BY <3>1, <3>2, CalibrateAllGood
  <2>3. CASE Started
    <3>1. ui' = BindingsOf(released, dirs, combos', TRUE)
      BY <1>1, <2>3 DEF Started
    <3>2. ui.pressed \subseteq PadSet
      BY DEF ControlsInv, GoodUi, UiStates
    <3>3. ASSUME NEW p \in ui.pressed \ up, NEW c \in ui.codes[p] \cap HeldCodes
          PROVE  c \in HeldCodes'
      <4>1. c \notin rlist
        BY <3>2, <3>3 DEF PadsOf
      <4>2. CASE \E stroke \in held \cup missed : CodeOf(stroke) = c
        BY <1>1, <4>2 DEF HeldCodes
      <4>3. CASE ~(\E stroke \in held \cup missed : CodeOf(stroke) = c)
        <5>1. c \in DirCodes
          BY <3>3, <4>3 DEF HeldCodes, DirCodes, ControlsInv
        <5>2. c \in plist
          BY <4>1, <5>1
        <5> QED BY <1>1, <5>2 DEF HeldCodes
      <4> QED BY <4>2, <4>3
    <3>4. \A p \in ui.pressed \ up :
            ui.codes[p] \cap HeldCodes # {} => ui.codes[p] \cap HeldCodes' # {}
      BY <3>3
    <3>5. ReleaseControls(ui, up) \in GoodUi(HeldCodes')
      <4> HIDE DEF up
      <4> QED BY <3>4, ReleaseGood DEF ControlsInv
    <3>6. plist \in SUBSET (HeldCodes')
      BY <1>1 DEF HeldCodes
    <3>7. /\ ReleaseControls(ui, up).events = "STARTED"
          /\ ~ReleaseControls(ui, up).calibrating
      BY <2>3 DEF Started, ReleaseControls, Release, ControlsInv, GoodUi, UiStates
    <3>8. controls \in GoodUi(HeldCodes')
      <4> HIDE DEF up, plist
      <4> QED BY <3>5, <3>6, <3>7, PressGood
    <3>9. released \in GoodUi(HeldCodes')
      <4> HIDE DEF controls
      <4> QED BY <3>8, DirectionsGood
    <3> HIDE DEF released
    <3> QED BY <3>1, <3>9, DirectionsGood
  <2> QED BY <2>1, <2>2, <2>3 DEF Started
<1>6. KpressTells'
  BY <1>1 DEF ControlsInv, KpressTells
<1> QED BY <1>1, <1>3, <1>4, <1>5, <1>6 DEF ControlsInv

-----------------------------------------------------------------------------
\* Every event keeps the invariant: the state of the handlers stays typed, and
\* buttons, freezes and combos stay what the keys and the joystick account for.
THEOREM ControlsInvAlways == Spec => []ControlsInv
<1>1. Init => ControlsInv
  <2> SUFFICES ASSUME Init PROVE ControlsInv
    OBVIOUS
  <2>1. HeldCodes = {}
    BY DEF Init, HeldCodes
  <2>2. kpress \in [Slots -> Names \cup {Nothing}]
    BY DEF Init
  <2> QED BY <2>1, <2>2, InitGood DEF Init, ControlsInv, CombosAreHeld, KpressTells
<1>2. ControlsInv /\ [Next]_vars => ControlsInv'
  <2> SUFFICES ASSUME ControlsInv, [Next]_vars PROVE ControlsInv'
    OBVIOUS
  <2>1. ASSUME NEW key \in Keys, NEW mods \in Modifiers,
               NEW typed \in Typed[key][mods], KeyDown(key, typed, mods)
        PROVE  ControlsInv'
    BY <2>1, KeyDownGood
  <2>2. ASSUME NEW key \in Keys, KeyUp(key) PROVE ControlsInv'
    BY <2>2, KeyUpGood
  <2>3. ASSUME NEW dirs \in SUBSET ToSet(Dirs), HatMotion(dirs) PROVE ControlsInv'
    BY <2>3, HatGood
  <2>4. CASE UNCHANGED vars
    BY <2>4 DEF vars, ControlsInv, CombosAreHeld, HeldCodes, KpressTells
  <2> QED BY <2>1, <2>2, <2>3, <2>4 DEF Next
<1> QED BY <1>1, <1>2, PTL DEF Spec

\* pd_handle_events leaves no button pressed when everything has been let go,
\* but those that a binding or a calibration left behind, and those whose release
\* was taken for that of a key that shares its slot in kpress.
THEOREM NothingStaysStuck == Spec => []NothingStuck
<1>1. ControlsInv => NothingStuck
  <2> SUFFICES ASSUME ControlsInv, hat = {}, held = {}, NEW p \in ui.down \ ui.loose
               PROVE  \E stroke \in missed :
                        Shared(stroke.sym) /\ CodeOf(stroke) \in ui.codes[p]
    BY DEF NothingStuck
  <2>1. HeldCodes = {CodeOf(stroke) : stroke \in missed}
    BY DEF HeldCodes
  <2>2. PICK c \in ui.codes[p] : c \in HeldCodes
    BY DEF ControlsInv, GoodUi, PressedIsHeld
  <2> QED BY <2>1, <2>2 DEF ControlsInv, KpressTells
<1> QED BY <1>1, ControlsInvAlways, PTL

\* pd_freeze_ref counts what the game is frozen for, once each.
THEOREM FrozenOnlyWhileStopped == Spec => []FrozenWhileStopped
<1>1. ControlsInv => FrozenWhileStopped
  BY DEF ControlsInv, GoodUi, FreezesCounted, FrozenWhileStopped
<1> QED BY <1>1, ControlsInvAlways, PTL

\* check_combos finds only what is held, a key with two modifiers, or a key whose
\* release was taken for that of another with its slot in kpress.
THEOREM BindingsSeeWhatIsHeld == Spec => []CombosAreHeld
<1>1. ControlsInv => CombosAreHeld
  BY DEF ControlsInv
<1> QED BY <1>1, ControlsInvAlways, PTL
=============================================================================
