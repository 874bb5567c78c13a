--------------------------- MODULE AccessControl ---------------------------
(***************************************************************************)
(* What the access to the room promises, without its threads' steps, their *)
(* queues and the daemon that answers them: each presented card is decided *)
(* on once, by the table of that moment; each decision is acted on once, by *)
(* the thread that asked; nothing new is presented to a thread that lets   *)
(* somebody pass; and denials in a row, or movement in an empty room, lead *)
(* to an alarm.  RoomAccess implements this specification.                 *)
(***************************************************************************)
EXTENDS Naturals

CONSTANTS Cards, Registered, NoCard, Threads, MaxAttempts

VARIABLES
  presented,  \* the card last presented to each thread
  decision,   \* what is known of it: "none" once it has been acted on
  passing,    \* the threads that let somebody pass
  owed,       \* the threads that are to raise the alarm
  attempts,   \* denials at the entry since the last grant or alarm
  inside      \* the cards of the users inside

avars == <<presented, decision, passing, owed, attempts, inside>>

Init ==
  /\ presented = [t \in Threads |-> NoCard]
  /\ decision = [t \in Threads |-> "none"]
  /\ passing = {} /\ owed = {}
  /\ attempts = 0
  /\ inside \in SUBSET Registered

Decided(t, d) == decision' = [decision EXCEPT ![t] = d]

Present(t, c) ==
  /\ decision[t] = "none" /\ t \notin passing \union owed
  /\ presented' = [presented EXCEPT ![t] = c]
  /\ Decided(t, "open")
  /\ UNCHANGED <<passing, owed, attempts, inside>>

(* The decision and its effect on the table are one step. *)
Grant(t) ==
  /\ decision[t] = "open"
  /\ IF t = "pir" THEN inside # {} ELSE presented[t] \in Registered
  /\ Decided(t, "granted")
  /\ inside' = CASE t = "entry" -> inside \union {presented[t]}
                 [] t = "exit"  -> inside \ {presented[t]}
                 [] OTHER       -> inside
  /\ UNCHANGED <<presented, passing, owed, attempts>>

Deny(t) ==
  /\ decision[t] = "open"
  /\ IF t = "pir" THEN inside = {} ELSE presented[t] \notin Registered
  /\ Decided(t, "denied")
  /\ UNCHANGED <<presented, passing, owed, attempts, inside>>

LetPass(t) ==
  /\ decision[t] = "granted"
  /\ Decided(t, "none")
  /\ passing' = passing \union ({t} \ {"pir"})
  /\ attempts' = IF t = "entry" THEN 0 ELSE attempts
  /\ UNCHANGED <<presented, owed, inside>>

TurnAway(t) ==
  /\ decision[t] = "denied"
  /\ Decided(t, "none")
  /\ attempts' = IF t # "entry" THEN attempts
                 ELSE IF attempts + 1 = MaxAttempts THEN 0 ELSE attempts + 1
  /\ owed' = IF t = "pir" \/ (t = "entry" /\ attempts' = 0)
             THEN owed \union {t} ELSE owed
  /\ UNCHANGED <<presented, passing, inside>>

Passed(t) ==
  /\ t \in passing
  /\ passing' = passing \ {t}
  /\ UNCHANGED <<presented, decision, owed, attempts, inside>>

Raise(t) ==
  /\ t \in owed
  /\ owed' = owed \ {t}
  /\ UNCHANGED <<presented, decision, passing, attempts, inside>>

Next ==
  \E t \in Threads :
    \/ \E c \in Cards \union {NoCard} : Present(t, c)
    \/ Grant(t) \/ Deny(t) \/ LetPass(t) \/ TurnAway(t) \/ Passed(t) \/ Raise(t)

Spec == Init /\ [][Next]_avars
=============================================================================
