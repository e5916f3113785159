------------------------------- MODULE TurnLedger -------------------------------
(***************************************************************************)
(* What the store promises about the turns of a room, without runs, rows   *)
(* or statements: a room takes one turn at a time; a turn is said to, until *)
(* it is answered or dropped, once; the talk is the prompts in the order   *)
(* they were asked, each answered one followed by its whole answer, and    *)
(* may lose its oldest part when a turn ends.  A closed room takes no turn, *)
(* but the one it had may still end either way.                            *)
(***************************************************************************)
EXTENDS Integers, Sequences

CONSTANTS
  Rooms,    \* rooms
  TurnIds,  \* numbers of turns, in the order they are asked
  Texts,    \* prompts
  MaxSaid,  \* the longest answer
  MaxTalk   \* how much of the talk is kept

VARIABLES
  room,     \* per room: absent, open, closed
  turn,     \* per room: its latest turn
  talk      \* per room: prompts and answers, oldest first

ledgerVars == <<room, turn, talk>>

NoTurn == [outcome |-> "none"]
Ongoing(r) == turn[r].outcome = "ongoing"

LedgerInit ==
  /\ room = [r \in Rooms |-> "absent"]
  /\ turn = [r \in Rooms |-> NoTurn]
  /\ talk = [r \in Rooms |-> <<>>]

Opens(r) ==
  /\ room[r] = "absent"
  /\ room' = [room EXCEPT ![r] = "open"]
  /\ UNCHANGED <<turn, talk>>

Closes(r) ==
  /\ room[r] = "open"
  /\ room' = [room EXCEPT ![r] = "closed"]
  /\ UNCHANGED <<turn, talk>>

\* A turn newer than every other of the room, once its last one has ended.
Asks(r, n, text) ==
  /\ room[r] = "open"
  /\ ~Ongoing(r)
  /\ turn[r] # NoTurn => turn[r].id < n
  /\ turn' = [turn EXCEPT ![r] = [outcome |-> "ongoing", id |-> n, text |-> text, said |-> 0]]
  /\ talk' = [talk EXCEPT ![r] = Append(@, [role |-> "user", text |-> text, run |-> n])]
  /\ UNCHANGED room

Says(r) ==
  /\ Ongoing(r)
  /\ turn[r].said < MaxSaid
  /\ turn' = [turn EXCEPT ![r].said = @ + 1]
  /\ UNCHANGED <<room, talk>>

\* The newest part of a talk.
Kept(s) == IF Len(s) <= MaxTalk THEN s ELSE SubSeq(s, Len(s) - MaxTalk + 1, Len(s))

\* What was said becomes the answer, right behind its prompt; nothing said is none.
Answered(r) ==
  IF turn[r].said = 0 THEN talk[r]
  ELSE Append(talk[r], [role |-> "assistant", text |-> turn[r].said, run |-> turn[r].id])

Answers(r) ==
  /\ Ongoing(r)
  /\ turn' = [turn EXCEPT ![r].outcome = "completed"]
  /\ talk' = [talk EXCEPT ![r] = Kept(Answered(r))]
  /\ UNCHANGED room

\* What was said is dropped; the prompt stays.
Fails(r) ==
  /\ Ongoing(r)
  /\ turn' = [turn EXCEPT ![r].outcome = "failed"]
  /\ talk' = [talk EXCEPT ![r] = Kept(@)]
  /\ UNCHANGED room

Cancels(r) ==
  /\ Ongoing(r)
  /\ turn' = [turn EXCEPT ![r].outcome = "canceled"]
  /\ UNCHANGED <<room, talk>>

\* A restart drops the turns of some rooms, all of them if it succeeds.
Interrupts(R) ==
  /\ \A r \in R : Ongoing(r)
  /\ turn' = [r \in Rooms |-> IF r \in R THEN [turn[r] EXCEPT !.outcome = "failed"] ELSE turn[r]]
  /\ UNCHANGED <<room, talk>>

LedgerNext ==
  \/ \E r \in Rooms : Opens(r) \/ Closes(r) \/ Says(r) \/ Answers(r) \/ Fails(r) \/ Cancels(r)
  \/ \E r \in Rooms, n \in TurnIds, text \in Texts : Asks(r, n, text)
  \/ \E R \in SUBSET Rooms : Interrupts(R)

LedgerSpec == LedgerInit /\ [][LedgerNext]_ledgerVars
=================================================================================
