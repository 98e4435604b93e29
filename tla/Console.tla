------------------------------ MODULE Console -------------------------------
(***************************************************************************)
(* The loop of the NIOS II program that feeds the hardware: it polls the   *)
(* keyboard, copies the report into the key registers one register at a    *)
(* time, lets the AI answer player 1's first key, and starts or leaves a   *)
(* match.  The hardware may look at the registers between any two writes.  *)
(*                                                                         *)
(* The program is main.c and ai.c as the workspace's local history keeps   *)
(* them: the main.c of the source tree is an older one that writes one key *)
(* register and never a game mode.  The USB driver below kbdPoll is not    *)
(* here: a poll brings a report, no news, or an error.                     *)
(***************************************************************************)
EXTENDS Keys

CONSTANTS
  Keyboard,     \* the keys somebody may press
  ReportSize,   \* keys in a report: 6
  Registers     \* key registers: 4

ASSUME ConsoleAssumption ==
  /\ Keyboard \subseteq Nat \ {NoKey}
  /\ Registers \in 1..4
  /\ ReportSize \in Nat /\ Registers <= ReportSize

KeyEnter == 40
KeySpace == 44

VARIABLES
  held,         \* the keyboard: the report it would send now
  fresh,        \* it has changed since the last report that got through
  attached,     \* the driver runs a keyboard
  rcode,        \* the result of the last poll
  kbdbuf,       \* the last report
  pc, slot,     \* the step the loop is at, 0 for the poll; the next register
  k,            \* the key registers
  ai, game_mode,\* the two bytes of the AI register
  span          \* by key: 1, held since the last report; 2, since an earlier
                \* one that has reached the registers with it (history only)

consoleVars == <<held, fresh, attached, rcode, kbdbuf, pc, slot, k, ai, game_mode, span>>

Entry == 0..(ReportSize - 1)
Reg   == 0..(Registers - 1)
Empty == [e \in Entry |-> NoKey]
Down  == {held[e] : e \in Entry} \ {NoKey}

(* The four registers as the hardware reads them.                          *)
View == [s \in Slot |-> IF s \in Reg THEN k[s] ELSE NoKey]

ConsoleInit ==
  /\ held = Empty /\ fresh = FALSE /\ attached = FALSE
  /\ rcode = "nak" /\ kbdbuf = Empty
  /\ pc = 0 /\ slot = 0
  /\ k = [r \in Reg |-> NoKey]
  /\ ai = NoKey /\ game_mode = Title
  /\ span = [x \in Keyboard |-> 0]

-----------------------------------------------------------------------------
(* The keyboard.  A key goes to the first free entry; the keys behind one  *)
(* that is let go keep their entries or close up, so a key that is held    *)
(* never moves to a later entry.                                           *)

Press(x) ==
  /\ attached /\ x \notin Down
  /\ \E e \in Entry :
       /\ held[e] = NoKey
       /\ \A d \in Entry : held[d] = NoKey => e <= d
       /\ held' = [held EXCEPT ![e] = x]
  /\ fresh' = TRUE
  /\ UNCHANGED <<attached, rcode, kbdbuf, pc, slot, k, ai, game_mode, span>>

CloseUp(e) ==
  [d \in Entry |-> IF d < e THEN held[d]
                   ELSE IF d + 1 \in Entry THEN held[d + 1] ELSE NoKey]

LetGo(e) ==
  /\ held[e] # NoKey
  /\ held' \in {[held EXCEPT ![e] = NoKey], CloseUp(e)}
  /\ fresh' = TRUE
  /\ span' = [span EXCEPT ![held[e]] = 0]
  /\ UNCHANGED <<attached, rcode, kbdbuf, pc, slot, k, ai, game_mode>>

Plug ==
  /\ ~attached
  /\ attached' = TRUE
  /\ UNCHANGED <<held, fresh, rcode, kbdbuf, pc, slot, k, ai, game_mode, span>>

(* The registers keep what they show.                                      *)
Unplug ==
  /\ attached
  /\ attached' = FALSE
  /\ held' = Empty /\ fresh' = FALSE
  /\ span' = [x \in Keyboard |-> 0]
  /\ UNCHANGED <<rcode, kbdbuf, pc, slot, k, ai, game_mode>>

-----------------------------------------------------------------------------
(* The loop.                                                               *)

(* Variant: the mode is changed before the keys are shown.                 *)
Order_ModeFirst == <<"mode", "keys", "ai">>
Order == <<"keys", "ai", "mode">>

At(step) == pc > 0 /\ Order[pc] = step
Advance == pc' = IF pc = 3 THEN 0 ELSE pc + 1

PollReport ==
  /\ pc = 0 /\ attached
  /\ rcode' = "ok"
  /\ kbdbuf' = held
  /\ fresh' = FALSE
  /\ pc' = 1
  /\ span' = [x \in Keyboard |-> IF x \in Down /\ span[x] = 0 THEN 1 ELSE span[x]]
  /\ UNCHANGED <<held, attached, slot, k, ai, game_mode>>

(* hrNAK: the keyboard has nothing to send, the loop goes round.           *)
PollNak ==
  /\ pc = 0 /\ attached /\ ~fresh
  /\ rcode' = "nak"
  /\ UNCHANGED <<held, fresh, attached, kbdbuf, pc, slot, k, ai, game_mode, span>>

(* Another code: the loop goes round, and the report may be lost.          *)
PollError ==
  /\ pc = 0 /\ attached
  /\ rcode' = "error"
  /\ fresh' \in {fresh, FALSE}
  /\ UNCHANGED <<held, attached, kbdbuf, pc, slot, k, ai, game_mode, span>>

(* Variant: the last register is left out.                                 *)
LastSlot_Short == Registers - 2
LastSlot == Registers - 1

(* Variant: the registers are written from the last to the first.          *)
Written_Downwards(i) == Registers - 1 - i
Written(i) == i

(* setKeycode, one write.                                                  *)
WriteKey ==
  /\ At("keys")
  /\ k' = [k EXCEPT ![Written(slot)] = kbdbuf[Written(slot)]]
  /\ IF slot < LastSlot
     THEN slot' = slot + 1 /\ UNCHANGED <<pc, span>>
     ELSE /\ slot' = 0 /\ Advance
          /\ span' = [x \in Keyboard |->
                        IF span[x] = 1 /\ \E r \in Reg : k'[r] = x THEN 2 ELSE span[x]]
  /\ UNCHANGED <<held, fresh, attached, rcode, kbdbuf, ai, game_mode>>

(* Variant: the AI copies player 1.                                        *)
Answers_Copy(key) == {key}

(* ai_mover: what the AI may do about player 1's first key.                *)
Answers(key) ==
  CASE key \in {KeyW, KeyS} -> {KeyK, KeyP, KeyD, KeyA}
    [] key \in {KeyD, KeyA} -> {KeyA, KeyK, KeyP, NoKey}
    [] key \in {KeyK, KeyP} -> {KeyS, KeyW, KeyK, KeyP, NoKey}
    [] OTHER                -> {KeyD, KeyA, KeyW, KeyP}

MoveAI ==
  /\ At("ai")
  /\ ai' \in Answers(kbdbuf[0])
  /\ Advance
  /\ UNCHANGED <<held, fresh, attached, rcode, kbdbuf, slot, k, game_mode, span>>

(* A match is started from the title screen, or with the restart key held  *)
(* second; the restart key first leaves it.                                *)
MayStart == game_mode = Title \/ (1 \in Entry /\ kbdbuf[1] = KeyR)

SetMode ==
  /\ At("mode")
  /\ game_mode' =
       IF MayStart /\ kbdbuf[0] = KeyEnter THEN OnePlayer
       ELSE IF MayStart /\ kbdbuf[0] = KeySpace THEN TwoPlayer
       ELSE IF kbdbuf[0] = KeyR THEN Title
       ELSE game_mode
  /\ Advance
  /\ UNCHANGED <<held, fresh, attached, rcode, kbdbuf, slot, k, ai, span>>

Loop == PollReport \/ PollNak \/ PollError \/ WriteKey \/ MoveAI \/ SetMode

ConsoleNext ==
  \/ \E x \in Keyboard : Press(x)
  \/ \E e \in Entry : LetGo(e)
  \/ Plug \/ Unplug
  \/ Loop

ConsoleSpec == ConsoleInit /\ [][ConsoleNext]_consoleVars

(* The processor runs nothing but this loop.                               *)
FairConsole == ConsoleSpec /\ WF_consoleVars(Loop)

-----------------------------------------------------------------------------
ConsoleTypeOK ==
  /\ held \in [Entry -> Keyboard \cup {NoKey}]
  /\ kbdbuf \in [Entry -> Keyboard \cup {NoKey}]
  /\ k \in [Reg -> Keyboard \cup {NoKey}]
  /\ fresh \in BOOLEAN /\ attached \in BOOLEAN
  /\ rcode \in {"ok", "nak", "error"}
  /\ pc \in 0..3 /\ slot \in Reg
  /\ ai \in {NoKey, KeyW, KeyS, KeyD, KeyA, KeyK, KeyP}
  /\ game_mode \in {Title, OnePlayer, TwoPlayer}
  /\ span \in [Keyboard -> 0..2]

(* README.md promises several keys at once to two players.  A key that has *)
(* reached the registers and has been held ever since is obeyed in every   *)
(* frame of a two-player match, even one that falls between two writes of  *)
(* a report that moves the key to another register: its player makes that  *)
(* move, or a stronger one that the registers show.                        *)
Codes(p) == IF p = 0 THEN Moves ELSE P2Aliases
HeldKeyObeyed ==
  \A p \in Player, i \in 1..6 :
    Codes(p)[i] \in Keyboard /\ span[Codes(p)[i]] = 2
    => keycode(p, View, TwoPlayer) \in {Moves[j] : j \in 1..i}

(* The mode never runs ahead of the registers: when a match is started or  *)
(* left, they already show the key that did it, so no frame fights on with *)
(* the keys of the screen before.                                          *)
ModeFollowsKeys ==
  [][ game_mode' # game_mode =>
        k[0] = CASE game_mode' = OnePlayer -> KeyEnter
                 [] game_mode' = TwoPlayer -> KeySpace
                 [] OTHER -> KeyR ]_consoleVars

(* Once the players leave the keyboard alone, what it has to tell reaches  *)
(* the registers, unless a poll fails or the keyboard is unplugged.        *)
Shown == \A r \in Reg : k[r] = held[r]
CatchesUp ==
  (<>[][FALSE]_held) => (fresh ~> (Shown \/ rcode = "error" \/ ~attached))
=============================================================================
