--------------------------- MODULE ConsoleProofs ----------------------------
(***************************************************************************)
(* Proofs about Console, for every keyboard, every size of a report and    *)
(* every number of registers that ConsoleAssumption allows.                *)
(***************************************************************************)
EXTENDS Console, TLAPS

USE DEF Entry, Reg

-----------------------------------------------------------------------------
(* Every variable keeps its type; the AI plays moves only, so it never     *)
(* presses the restart key that would freeze its own fighter.              *)

LEMMA ConsoleTypeInit == ConsoleInit => ConsoleTypeOK
<1> SUFFICES ASSUME ConsoleInit PROVE ConsoleTypeOK
  OBVIOUS
<1> USE ConsoleAssumption DEF ConsoleInit
<1>1. held \in [Entry -> Keyboard \cup {NoKey}] /\ kbdbuf \in [Entry -> Keyboard \cup {NoKey}]
  BY DEF Empty
<1>2. k \in [Reg -> Keyboard \cup {NoKey}] /\ span \in [Keyboard -> 0..2]
  OBVIOUS
<1>3. fresh \in BOOLEAN /\ attached \in BOOLEAN
  OBVIOUS
<1>4. /\ rcode \in {"ok", "nak", "error"}
      /\ pc \in 0..3 /\ slot \in Reg
      /\ ai \in {NoKey, KeyW, KeyS, KeyD, KeyA, KeyK, KeyP}
      /\ game_mode \in {Title, OnePlayer, TwoPlayer}
  OBVIOUS
<1> QED
  BY <1>1, <1>2, <1>3, <1>4 DEF ConsoleTypeOK

LEMMA ConsoleTypeNext == ConsoleTypeOK /\ [ConsoleNext]_consoleVars => ConsoleTypeOK'
<1> SUFFICES ASSUME ConsoleTypeOK, [ConsoleNext]_consoleVars PROVE ConsoleTypeOK'
  OBVIOUS
<1> USE ConsoleAssumption DEF ConsoleTypeOK
<1>1. ASSUME NEW x \in Keyboard, Press(x) PROVE ConsoleTypeOK'
  BY <1>1 DEF Press
<1>2. ASSUME NEW e \in Entry, LetGo(e) PROVE ConsoleTypeOK'
  <2>1. CloseUp(e) \in [Entry -> Keyboard \cup {NoKey}]
    BY DEF CloseUp
  <2>2. held[e] \in Keyboard
    BY <1>2 DEF LetGo
  <2> QED
    BY <1>2, <2>1, <2>2 DEF LetGo
<1>3. CASE Plug
  <2>1. attached' \in BOOLEAN
    BY <1>3 DEF Plug
  <2> QED
    BY <1>3, <2>1 DEF Plug
<1>4. CASE Unplug
  <2>1. attached' \in BOOLEAN /\ fresh' \in BOOLEAN
    BY <1>4 DEF Unplug
  <2>2. held' \in [Entry -> Keyboard \cup {NoKey}] /\ span' \in [Keyboard -> 0..2]
    BY <1>4 DEF Unplug, Empty
  <2> QED
    BY <1>4, <2>1, <2>2 DEF Unplug
<1>5. CASE PollReport
  <2>1. fresh' \in BOOLEAN
    BY <1>5 DEF PollReport
  <2>2. span' \in [Keyboard -> 0..2]
    BY <1>5 DEF PollReport
  <2> QED
    BY <1>5, <2>1, <2>2 DEF PollReport
<1>6. CASE PollNak
  BY <1>6 DEF PollNak
<1>7. CASE PollError
  BY <1>7 DEF PollError
<1>8. CASE WriteKey
  <2>1. k' \in [Reg -> Keyboard \cup {NoKey}]
    BY <1>8 DEF WriteKey, Written
  <2>2. pc' \in 0..3 /\ slot' \in Reg /\ span' \in [Keyboard -> 0..2]
    BY <1>8 DEF WriteKey, LastSlot, Advance, At
  <2> QED
    BY <1>8, <2>1, <2>2 DEF WriteKey
<1>9. CASE MoveAI
  <2>1. ai' \in {NoKey, KeyW, KeyS, KeyD, KeyA, KeyK, KeyP}
    BY <1>9 DEF MoveAI, Answers
  <2> QED
    BY <1>9, <2>1 DEF MoveAI, Advance, At
<1>10. CASE SetMode
  BY <1>10 DEF SetMode, Advance, At
<1>11. CASE UNCHANGED consoleVars
  BY <1>11 DEF consoleVars
<1> QED
  BY <1>1, <1>2, <1>3, <1>4, <1>5, <1>6, <1>7, <1>8, <1>9, <1>10, <1>11 DEF ConsoleNext, Loop

(* The console keeps its types: every register always holds a key of the   *)
(* keyboard or none, the AI byte always a move or none (setKeycode,        *)
(* ai_mover, and the mode chain of main).                                  *)
THEOREM ConsoleTypeCorrect == ConsoleSpec => []ConsoleTypeOK
<1>1. ConsoleSpec => ConsoleInit /\ [][ConsoleNext]_consoleVars
  BY DEF ConsoleSpec
<1> QED
  BY ConsoleTypeInit, ConsoleTypeNext, <1>1, PTL

-----------------------------------------------------------------------------
(* A held key is obeyed.  What makes it so is where a key can be: the      *)
(* keyboard moves it only to earlier entries, and the loop writes the      *)
(* registers in that direction too.                                        *)

(* A key held since the last report stands no later on the keyboard than   *)
(* it stood in that report.                                                *)
NoLater ==
  \A x \in Keyboard : span[x] # 0 =>
    \A e \in Entry : kbdbuf[e] = x => \E d \in Entry : d <= e /\ held[d] = x

(* The registers written so far show the report; all of them do when the   *)
(* loop is not writing.                                                    *)
WrittenSoFar ==
  /\ pc # 1 => slot = 0
  /\ \A r \in Reg : pc # 1 \/ r < slot => k[r] = kbdbuf[r]

(* A key held since a report that has reached the registers is in one of   *)
(* them, and the report the loop is writing has it no later.               *)
StillThere ==
  \A x \in Keyboard : span[x] = 2 =>
    \E r \in Reg : k[r] = x /\ \E e \in Entry : e <= r /\ kbdbuf[e] = x

KeyInv == NoLater /\ WrittenSoFar /\ StillThere

LEMMA KeyInit == ConsoleInit => KeyInv
<1> SUFFICES ASSUME ConsoleInit PROVE KeyInv
  OBVIOUS
<1> USE ConsoleAssumption DEF ConsoleInit
<1>1. NoLater /\ StillThere
  BY DEF NoLater, StillThere
<1>2. WrittenSoFar
  BY DEF WrittenSoFar, Empty
<1> QED
  BY <1>1, <1>2 DEF KeyInv

(* Letting go of a key moves the others to earlier entries, if at all.     *)
LEMMA LetGoMoves ==
  ASSUME ConsoleTypeOK, NEW e \in Entry, LetGo(e),
         NEW d \in Entry, held[d] # held[e]
  PROVE  \E c \in Entry : c <= d /\ held'[c] = held[d]
<1>1. CASE held' = [held EXCEPT ![e] = NoKey]
  BY <1>1 DEF ConsoleTypeOK
<1>2. CASE held' = CloseUp(e) /\ d < e
  BY <1>2 DEF CloseUp
<1>3. CASE held' = CloseUp(e) /\ d > e
  <2>1. d - 1 \in Entry /\ ~(d - 1 < e) /\ (d - 1) + 1 = d
    BY <1>3, ConsoleAssumption
  <2>2. held'[d - 1] = held[d]
    BY <1>3, <2>1 DEF CloseUp
  <2> QED
    BY <2>1, <2>2
<1> QED
  BY <1>1, <1>2, <1>3, ConsoleAssumption DEF LetGo

(* The keyboard's own steps keep NoLater; they touch nothing else of       *)
(* KeyInv but to forget keys.                                              *)
LEMMA NoLaterKeyboard ==
  ASSUME ConsoleTypeOK, NoLater,
         \/ \E x \in Keyboard : Press(x)
         \/ \E e \in Entry : LetGo(e)
         \/ Unplug
  PROVE  NoLater'
<1>1. ASSUME NEW x \in Keyboard, Press(x) PROVE NoLater'
  <2>1. ASSUME NEW d \in Entry, held[d] \in Keyboard PROVE held'[d] = held[d]
    BY <1>1, <2>1, ConsoleAssumption DEF Press, ConsoleTypeOK
  <2> QED
    BY <1>1, <2>1 DEF Press, NoLater, ConsoleTypeOK
<1>2. ASSUME NEW e \in Entry, LetGo(e) PROVE NoLater'
  <2> SUFFICES ASSUME NEW x \in Keyboard, span'[x] # 0, NEW f \in Entry, kbdbuf'[f] = x
               PROVE  \E c \in Entry : c <= f /\ held'[c] = x
    BY DEF NoLater
  <2>1. held[e] \in Keyboard
    BY <1>2 DEF LetGo, ConsoleTypeOK
  <2>2. x # held[e] /\ span[x] # 0 /\ kbdbuf[f] = x
    BY <1>2, <2>1 DEF LetGo, ConsoleTypeOK
  <2>3. PICK d \in Entry : d <= f /\ held[d] = x
    BY <2>2 DEF NoLater
  <2>4. PICK c \in Entry : c <= d /\ held'[c] = held[d]
    BY <1>2, <2>2, <2>3, LetGoMoves
  <2> QED
    BY <2>3, <2>4, ConsoleAssumption
<1>3. CASE Unplug
  BY <1>3 DEF Unplug, NoLater
<1> QED
  BY <1>1, <1>2, <1>3

LEMMA KeyKeyboard ==
  ASSUME ConsoleTypeOK, KeyInv,
         \/ \E x \in Keyboard : Press(x)
         \/ \E e \in Entry : LetGo(e)
         \/ Unplug
  PROVE  KeyInv'
<1>1. UNCHANGED <<kbdbuf, pc, slot, k>>
  BY DEF Press, LetGo, Unplug
<1>2. ASSUME NEW x \in Keyboard, span'[x] = 2 PROVE span[x] = 2
  BY <1>2 DEF Press, LetGo, Unplug, ConsoleTypeOK
<1>3. WrittenSoFar'
  BY <1>1 DEF KeyInv, WrittenSoFar
<1>4. StillThere'
  BY <1>1, <1>2 DEF KeyInv, StillThere
<1> QED
  BY <1>3, <1>4, NoLaterKeyboard DEF KeyInv

(* A report that gets through: a key in a register stood no later on the   *)
(* keyboard than in the report before it, so it stands no later in this.   *)
LEMMA KeyPollReport ==
  ASSUME ConsoleTypeOK, KeyInv, PollReport
  PROVE  KeyInv'
<1>1. NoLater'
  BY ConsoleAssumption DEF PollReport, NoLater
<1>2. WrittenSoFar'
  <2>1. pc = 0 /\ pc' = 1 /\ slot' = slot /\ k' = k /\ slot = 0
    BY DEF PollReport, KeyInv, WrittenSoFar
  <2> QED
    BY <2>1 DEF WrittenSoFar, Reg
<1>3. StillThere'
  <2> SUFFICES ASSUME NEW x \in Keyboard, span'[x] = 2
               PROVE  \E r \in Reg : k'[r] = x /\ \E e \in Entry : e <= r /\ kbdbuf'[e] = x
    BY DEF StillThere
  <2>1. span[x] = 2
    BY DEF PollReport, ConsoleTypeOK
  <2>2. PICK r \in Reg : k[r] = x
    BY <2>1 DEF KeyInv, StillThere
  <2>3. r \in Entry /\ kbdbuf[r] = x
    BY <2>2, ConsoleAssumption DEF KeyInv, WrittenSoFar, PollReport
  <2>4. \E d \in Entry : d <= r /\ held[d] = x
    BY <2>1, <2>3 DEF KeyInv, NoLater
  <2> QED
    BY <2>2, <2>4 DEF PollReport
<1> QED
  BY <1>1, <1>2, <1>3 DEF KeyInv

(* A write may take a key out of a register, but only if an earlier one,   *)
(* already written, shows it.                                              *)
LEMMA KeyWrite ==
  ASSUME ConsoleTypeOK, KeyInv, WriteKey
  PROVE  KeyInv'
<1> USE ConsoleAssumption
<1>0. /\ slot \in Reg /\ pc = 1
      /\ k' = [k EXCEPT ![slot] = kbdbuf[slot]]
      /\ kbdbuf' = kbdbuf /\ held' = held
  BY DEF WriteKey, Written, At, Order, ConsoleTypeOK
<1>1. \A r \in Reg : r <= slot => k'[r] = kbdbuf[r]
  BY <1>0 DEF KeyInv, WrittenSoFar, ConsoleTypeOK
<1>2. WrittenSoFar'
  BY <1>0, <1>1 DEF WriteKey, LastSlot, Advance, WrittenSoFar
<1>3. ASSUME NEW x \in Keyboard, span[x] = 2
      PROVE  \E r \in Reg : k'[r] = x /\ \E e \in Entry : e <= r /\ kbdbuf[e] = x
  <2>1. PICK r \in Reg, e \in Entry : k[r] = x /\ e <= r /\ kbdbuf[e] = x
    BY <1>3 DEF KeyInv, StillThere
  <2>2. CASE r # slot
    BY <1>0, <2>1, <2>2 DEF ConsoleTypeOK
  <2>3. CASE r = slot
    <3>1. e \in Reg /\ k'[e] = x
      BY <1>1, <2>1, <2>3
    <3> QED
      BY <2>1, <3>1
  <2> QED
    BY <2>2, <2>3
<1>4. ASSUME NEW x \in Keyboard, span'[x] # span[x]
      PROVE  /\ span[x] = 1
             /\ \E r \in Reg : k'[r] = x /\ kbdbuf[r] = x
  <2>1. /\ slot = Registers - 1
        /\ span' = [y \in Keyboard |->
                      IF span[y] = 1 /\ \E r \in Reg : k'[r] = y THEN 2 ELSE span[y]]
    BY <1>0, <1>4 DEF WriteKey, LastSlot
  <2>2. span[x] = 1 /\ \E r \in Reg : k'[r] = x
    BY <1>4, <2>1
  <2> QED
    BY <1>1, <2>1, <2>2
<1>5. StillThere'
  <2> SUFFICES ASSUME NEW x \in Keyboard, span'[x] = 2
               PROVE  \E r \in Reg : k'[r] = x /\ \E e \in Entry : e <= r /\ kbdbuf'[e] = x
    BY DEF StillThere
  <2>1. CASE span'[x] = span[x]
    BY <1>0, <1>3, <2>1
  <2>2. CASE span'[x] # span[x]
    BY <1>0, <1>4, <2>2
  <2> QED
    BY <2>1, <2>2
<1>6. NoLater'
  BY <1>0, <1>4 DEF KeyInv, NoLater
<1> QED
  BY <1>2, <1>5, <1>6 DEF KeyInv

LEMMA KeyNext == ConsoleTypeOK /\ KeyInv /\ [ConsoleNext]_consoleVars => KeyInv'
<1> SUFFICES ASSUME ConsoleTypeOK, KeyInv, [ConsoleNext]_consoleVars PROVE KeyInv'
  OBVIOUS
<1>1. CASE (\E x \in Keyboard : Press(x)) \/ (\E e \in Entry : LetGo(e)) \/ Unplug
  BY <1>1, KeyKeyboard
<1>2. CASE PollReport
  BY <1>2, KeyPollReport
<1>3. CASE WriteKey
  BY <1>3, KeyWrite
<1>4. CASE Plug \/ PollNak \/ PollError \/ UNCHANGED consoleVars
  <2>1. UNCHANGED <<held, kbdbuf, pc, slot, k, span>>
    BY <1>4 DEF Plug, PollNak, PollError, consoleVars
  <2> QED
    BY <2>1 DEF KeyInv, NoLater, WrittenSoFar, StillThere
<1>5. CASE MoveAI \/ SetMode
  <2>1. UNCHANGED <<held, kbdbuf, slot, k, span>> /\ pc # 1 /\ pc' # 1
    BY <1>5 DEF MoveAI, SetMode, At, Order, Advance, ConsoleTypeOK
  <2> QED
    BY <2>1 DEF KeyInv, NoLater, WrittenSoFar, StillThere
<1> QED
  BY <1>1, <1>2, <1>3, <1>4, <1>5 DEF ConsoleNext, Loop

(* A key a register shows is obeyed, or a stronger one of its player.      *)
LEMMA ShownKeyObeyed ==
  ASSUME NEW p \in Player, NEW i \in 1..6, NEW ks, NEW s \in Slot, ks[s] = Codes(p)[i]
  PROVE  keycode(p, ks, TwoPlayer) \in {Moves[j] : j \in 1..i}
<1> DEFINE P == Pressed(ks, Codes(p))
<1>1. i \in P /\ P \subseteq 1..6
  BY DEF Pressed
<1>2. \E m \in P : \A j \in P : m <= j
  <2>1. \A n \in 1..6 : (n \in P /\ \A j \in 1..6 : j < n => j \notin P)
                        => \A j \in P : n <= j
    BY <1>1
  <2> QED
    BY <1>1, <2>1
<1>3. PICK m \in P : m = CHOOSE h \in P : \A j \in P : h <= j
  BY <1>2
<1>4. m \in 1..i
  <2>1. \A j \in P : m <= j
    BY <1>2, <1>3
  <2> QED
    BY <1>1, <2>1
<1>5. keycode(p, ks, TwoPlayer) = Moves[m]
  <2>1. Priority(ks, Codes(p)) = Moves[m]
    BY <1>1, <1>3 DEF Priority
  <2> QED
    BY <2>1 DEF keycode, Codes, OnePlayer, TwoPlayer
<1> QED
  BY <1>4, <1>5

(* HeldKeyObeyed, for keyboards and reports of every size: a torn report   *)
(* never hides a key that is held (setKeycode against key_code.sv).        *)
THEOREM HeldKeysSafe == ConsoleSpec => []HeldKeyObeyed
<1>1. ConsoleTypeOK /\ KeyInv => HeldKeyObeyed
  <2> SUFFICES ASSUME KeyInv, NEW p \in Player, NEW i \in 1..6,
                      Codes(p)[i] \in Keyboard, span[Codes(p)[i]] = 2
               PROVE  keycode(p, View, TwoPlayer) \in {Moves[j] : j \in 1..i}
    BY DEF HeldKeyObeyed
  <2>1. PICK r \in Reg : k[r] = Codes(p)[i]
    BY DEF KeyInv, StillThere
  <2>2. r \in Slot /\ View[r] = Codes(p)[i]
    BY <2>1, ConsoleAssumption DEF Slot, View
  <2> QED
    BY <2>2, ShownKeyObeyed
<1> QED
  BY <1>1, ConsoleTypeInit, ConsoleTypeNext, KeyInit, KeyNext, PTL DEF ConsoleSpec

(* The mode follows the keys, whatever the keyboard does meanwhile: when   *)
(* the mode chain of main runs, setKeycode has written every register.     *)
THEOREM ModesFollow == ConsoleSpec => ModeFollowsKeys
<1> DEFINE Cause == CASE game_mode' = OnePlayer -> KeyEnter
                      [] game_mode' = TwoPlayer -> KeySpace
                      [] OTHER -> KeyR
<1>1. ASSUME ConsoleTypeOK, KeyInv, [ConsoleNext]_consoleVars, game_mode' # game_mode
      PROVE  k[0] = Cause
  <2>1. SetMode
    BY <1>1 DEF ConsoleNext, Loop, consoleVars, Press, LetGo, Plug, Unplug,
                PollReport, PollNak, PollError, WriteKey, MoveAI
  <2>2. pc # 1
    BY <2>1 DEF SetMode, At, Order
  <2>3. k[0] = kbdbuf[0]
    BY <1>1, <2>2, ConsoleAssumption DEF KeyInv, WrittenSoFar, Reg
  <2>4. \/ game_mode' = OnePlayer /\ kbdbuf[0] = KeyEnter
        \/ game_mode' = TwoPlayer /\ kbdbuf[0] = KeySpace
        \/ game_mode' = Title /\ kbdbuf[0] = KeyR
    BY <1>1, <2>1 DEF SetMode
  <2> QED
    BY <2>3, <2>4 DEF Title, OnePlayer, TwoPlayer
<1>2. ConsoleTypeOK /\ KeyInv /\ [ConsoleNext]_consoleVars
        => [game_mode' # game_mode => k[0] = Cause]_consoleVars
  BY <1>1
<1> QED
  BY <1>2, ConsoleTypeInit, ConsoleTypeNext, KeyInit, KeyNext, PTL
     DEF ConsoleSpec, ModeFollowsKeys

-----------------------------------------------------------------------------
(* The registers catch up with the keyboard: a report that is waiting is   *)
(* fetched when the loop comes round and then written, stage by stage.     *)

(* The loop goes on while there is something for it to do: what            *)
(* WF_consoleVars(Loop) comes to, since only a poll without a keyboard has *)
(* no step.                                                                *)
LoopRuns == []<><<Loop>>_consoleVars \/ []<>(pc = 0 /\ ~attached)

Told == Shown \/ rcode = "error" \/ ~attached

(* News waits in the keyboard while the loop is at a step, or is under way *)
(* to the registers.                                                       *)
Writing(s) == attached /\ fresh /\ pc = 1 /\ slot = s
Turning(n) == attached /\ fresh /\ pc = n
Carried(s) == attached /\ kbdbuf = held /\ pc = 1 /\ slot = s

Coming ==
  \/ Writing(0) \/ Writing(1) \/ Writing(2) \/ Writing(3)
  \/ Turning(2) \/ Turning(3) \/ Turning(0)
  \/ Carried(0) \/ Carried(1) \/ Carried(2) \/ Carried(3)

Onward ==
  /\ Writing(0) => Writing(1)' \/ Turning(2)' \/ Told'
  /\ Writing(1) => Writing(2)' \/ Turning(2)' \/ Told'
  /\ Writing(2) => Writing(3)' \/ Turning(2)' \/ Told'
  /\ Writing(3) => Turning(2)' \/ Told'
  /\ Turning(2) => Turning(3)' \/ Told'
  /\ Turning(3) => Turning(0)' \/ Told'
  /\ Turning(0) => Carried(0)' \/ Told'
  /\ Carried(0) => Carried(1)' \/ Told'
  /\ Carried(1) => Carried(2)' \/ Told'
  /\ Carried(2) => Carried(3)' \/ Told'
  /\ Carried(3) => Told'

Stays ==
  /\ Writing(0) => Writing(0)' \/ Told'
  /\ Writing(1) => Writing(1)' \/ Told'
  /\ Writing(2) => Writing(2)' \/ Told'
  /\ Writing(3) => Writing(3)' \/ Told'
  /\ Turning(2) => Turning(2)' \/ Told'
  /\ Turning(3) => Turning(3)' \/ Told'
  /\ Turning(0) => Turning(0)' \/ Told'
  /\ Carried(0) => Carried(0)' \/ Told'
  /\ Carried(1) => Carried(1)' \/ Told'
  /\ Carried(2) => Carried(2)' \/ Told'
  /\ Carried(3) => Carried(3)' \/ Told'

LEMMA NewsComes == ConsoleTypeOK /\ fresh => Coming \/ Told
<1> SUFFICES ASSUME ConsoleTypeOK, fresh, attached PROVE Coming
  BY DEF Told
<1>1. pc \in {0, 1, 2, 3} /\ slot \in {0, 1, 2, 3}
  BY ConsoleAssumption DEF ConsoleTypeOK
<1> QED
  BY <1>1 DEF Coming, Writing, Turning

(* A step of the loop takes the news one stage on.                         *)
LEMMA LoopOnward ==
  ASSUME ConsoleTypeOK, KeyInv, Loop
  PROVE  Onward
<1> USE DEF Onward, Writing, Turning, Carried
<1>1. CASE PollReport
  BY <1>1 DEF PollReport, KeyInv, WrittenSoFar
<1>2. CASE PollNak
  BY <1>2 DEF PollNak
<1>3. CASE PollError
  BY <1>3 DEF PollError, Told
<1>4. CASE WriteKey
  <2>1. pc = 1 /\ UNCHANGED <<held, fresh, attached, kbdbuf>> /\ slot \in Reg
    BY <1>4 DEF WriteKey, At, Order, ConsoleTypeOK
  <2>2. CASE slot < LastSlot
    <3>1. slot \in {0, 1, 2} /\ slot' = slot + 1 /\ pc' = 1
      BY <1>4, <2>1, <2>2, ConsoleAssumption DEF WriteKey, LastSlot
    <3> QED
      BY <2>1, <3>1
  <2>3. CASE ~(slot < LastSlot)
    <3>1. slot' = 0 /\ pc' = 2
      BY <1>4, <2>1, <2>3 DEF WriteKey, Advance
    <3>2. \A r \in Reg : k'[r] = kbdbuf[r]
      BY <1>4, <2>1, <2>3, ConsoleAssumption
         DEF WriteKey, Written, LastSlot, KeyInv, WrittenSoFar, ConsoleTypeOK
    <3>3. kbdbuf = held => Told'
      BY <2>1, <3>2 DEF Told, Shown
    <3> QED
      BY <2>1, <3>1, <3>3
  <2> QED
    BY <2>2, <2>3
<1>5. CASE MoveAI \/ SetMode
  BY <1>5 DEF MoveAI, SetMode, At, Order, Advance
<1> QED
  BY <1>1, <1>2, <1>3, <1>4, <1>5 DEF Loop

(* Nobody but the loop takes it back: a key that is pressed or let go is   *)
(* news again, and a keyboard that is unplugged ends the matter.           *)
LEMMA NewsStays ==
  ASSUME ConsoleTypeOK, KeyInv, [ConsoleNext]_consoleVars
  PROVE  /\ Coming => Coming' \/ Told'
         /\ held' = held => Onward \/ Stays
<1> USE DEF Writing, Turning, Carried
<1>1. CASE Loop
  BY <1>1, LoopOnward DEF Coming, Onward
<1>2. CASE \/ (\E x \in Keyboard : Press(x)) \/ (\E e \in Entry : LetGo(e))
           \/ Plug \/ Unplug \/ UNCHANGED consoleVars
  <2>1. UNCHANGED <<kbdbuf, pc, slot>>
    BY <1>2 DEF Press, LetGo, Plug, Unplug, consoleVars
  <2>2. attached /\ attached' => held' = held \/ fresh'
    BY <1>2 DEF Press, LetGo, Plug, Unplug, consoleVars
  <2>3. fresh /\ attached' => fresh'
    BY <1>2 DEF Press, LetGo, Plug, Unplug, consoleVars
  <2>4. held' = held => Stays
    BY <2>1, <2>2, <2>3 DEF Stays, Told
  <2>5. Coming => Coming' \/ Told'
    <3> SUFFICES ASSUME Coming, attached' PROVE Coming'
      BY DEF Told
    <3>1. CASE held' = held
      BY <2>1, <2>2, <2>3, <3>1 DEF Coming
    <3>2. CASE fresh'
      BY <2>1, <3>2 DEF Coming
    <3>3. attached
      BY DEF Coming
    <3> QED
      BY <2>2, <3>1, <3>2, <3>3
  <2> QED
    BY <2>4, <2>5
<1> QED
  BY <1>1, <1>2 DEF ConsoleNext

(* CatchesUp, as long as the loop runs: the last thing the keyboard has to *)
(* tell gets into the registers, however the polls, the writes and the     *)
(* keys before it fall together.                                           *)
THEOREM RegistersCatchUp == ConsoleSpec /\ LoopRuns => CatchesUp
<1>1. ConsoleTypeOK /\ fresh => Coming \/ Told
  BY NewsComes
<1>2. ConsoleTypeOK /\ KeyInv /\ [ConsoleNext]_consoleVars => (Coming => Coming' \/ Told')
  BY NewsStays
<1>3. ConsoleTypeOK /\ KeyInv /\ [ConsoleNext]_consoleVars /\ [FALSE]_held => Onward \/ Stays
  BY NewsStays
<1>4. ConsoleTypeOK /\ KeyInv /\ <<Loop>>_consoleVars => Onward
  BY LoopOnward
<1>5. pc = 0 /\ ~attached => Told
  BY DEF Told
<1>6. Told <=> Shown \/ rcode = "error" \/ ~attached
  BY DEF Told
<1>7. ConsoleTypeOK /\ KeyInv /\ [ConsoleNext]_consoleVars => (ConsoleTypeOK /\ KeyInv)'
  BY ConsoleTypeNext, KeyNext
<1> QED
  BY <1>1, <1>2, <1>3, <1>4, <1>5, <1>6, <1>7, ConsoleTypeInit, KeyInit, PTL
     DEF Coming, Onward, Stays, LoopRuns, ConsoleSpec, CatchesUp
=============================================================================
