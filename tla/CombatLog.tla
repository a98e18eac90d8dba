----------------------------- MODULE CombatLog -----------------------------
(***************************************************************************)
(* game::CombatLog, a ring buffer, and the panel that shows a part of it   *)
(* (engine::drawCombatLogPanel), scrolled by the user.                     *)
(***************************************************************************)
EXTENDS Integers, Sequences

CONSTANTS
  Events,          \* the events that fights and captures produce
  TurnOf,          \* the turn recorded in each
  Capacity,        \* the slots of the ring: 1000 unless the caller says else
  MaxDisplay,      \* COMBAT_LOG_MAX_DISPLAY, the lines of the panel
  MaxScroll,       \* bound of the model: how far the user scrolls
  MaxHistory,      \* bound of the model: the events between two clearings
  Blank            \* a default-constructed event

\* A ring without slots divides by zero in append: capacity_ is never 0.
CombatLogAssumption ==
  /\ Capacity \in Nat \ {0} /\ MaxDisplay \in Nat /\ MaxScroll \in Nat /\ MaxHistory \in Nat
  /\ TurnOf \in [Events -> Nat]
  /\ Blank \notin Events

VARIABLES
  buffer,          \* the slots, from 0 on
  head,            \* the next slot that is written
  count,           \* how many slots hold events
  scroll,          \* combatLogScroll of the application
  history          \* history: every event since the log was last cleared

ring == <<buffer, head, count>>
vars == <<ring, scroll, history>>

Slots == 0 .. Capacity - 1

Smaller(m, n) == IF m < n THEN m ELSE n

Larger(m, n) == IF m > n THEN m ELSE n

Init ==
  /\ buffer = [i \in Slots |-> Blank]
  /\ head = 0
  /\ count = 0
  /\ scroll = 0
  /\ history = <<>>

AppendEvent(e) ==
  /\ Len(history) < MaxHistory
  /\ buffer' = [buffer EXCEPT ![head] = e]
  /\ head' = (head + 1) % Capacity
  /\ count' = IF count < Capacity THEN count + 1 ELSE count
  /\ history' = Append(history, e)
  /\ UNCHANGED scroll

\* Mutant: the write position is forgotten, the number of events is not.
ClearKeepingCount ==
  /\ head' = 0
  /\ history' = <<>>
  /\ UNCHANGED <<buffer, count, scroll>>

\* The slots keep their events, which nothing can reach any more.
Clear ==
  /\ head' = 0
  /\ count' = 0
  /\ history' = <<>>
  /\ UNCHANGED <<buffer, scroll>>

\* Page Up and Page Down.
ScrollUp == scroll < MaxScroll /\ scroll' = scroll + 1 /\ UNCHANGED <<ring, history>>

ScrollDown == scroll > 0 /\ scroll' = scroll - 1 /\ UNCHANGED <<ring, history>>

Next == (\E e \in Events : AppendEvent(e)) \/ Clear \/ ScrollUp \/ ScrollDown

Spec == Init /\ [][Next]_vars

-----------------------------------------------------------------------------
(* The queries. *)

RecentEvents(n) ==
  LET k == Smaller(n, count)
  IN  [i \in 1 .. k |-> buffer[(head + Capacity - k + (i - 1)) % Capacity]]

AllEvents == RecentEvents(count)

\* Those of a turn, in their order.
EventsOf(events, t) == SelectSeq(events, LAMBDA e : TurnOf[e] = t)

EventsForTurn(t) ==
  LET start == (head + Capacity - count) % Capacity
      held == [i \in 1 .. count |-> buffer[(start + (i - 1)) % Capacity]]
  IN  EventsOf(held, t)

\* The lines of the panel: of the events that are fetched, the last ones.
MaxScrollOffset == Larger(0, count - Smaller(count, MaxDisplay))

ClampedScroll == Smaller(Larger(scroll, 0), MaxScrollOffset)

Panel ==
  LET displayCount == Smaller(count, MaxDisplay)
      fetched == RecentEvents(displayCount + ClampedScroll)
      start == Len(fetched) - displayCount
  IN  [i \in 1 .. displayCount |-> fetched[start + i]]

-----------------------------------------------------------------------------
(* What is checked. *)

TypeOK ==
  /\ buffer \in [Slots -> Events \cup {Blank}]
  /\ head \in Slots
  /\ count \in 0 .. Capacity
  /\ scroll \in 0 .. MaxScroll
  /\ history \in Seq(Events)

Abstract == INSTANCE BoundedLog WITH log <- AllEvents

\* CombatLog.h: a bounded log that drops the oldest events when it is full;
\* no slot that was never written, or was cleared, comes to light.
KeepsTheLatest == Abstract!Spec

\* recentEvents and eventsForTurn tell what happened, in the order in which
\* it happened, wherever the ring has wrapped, and the panel that nobody has
\* scrolled shows the end of it.
QueriesTellTheHistory ==
  LET kept == Abstract!Latest(history, Capacity)
  IN  /\ \A n \in 0 .. Capacity + 1 : RecentEvents(n) = Abstract!Latest(kept, n)
      /\ \A t \in {TurnOf[e] : e \in Events} :
           EventsForTurn(t) = EventsOf(kept, t)
      /\ ClampedScroll = 0 => Panel = Abstract!Latest(kept, MaxDisplay)

\* The ring is the log it promises to be, for all its queries.
LogTellsTheHistory == [](TypeOK /\ QueriesTellTheHistory) /\ KeepsTheLatest

=============================================================================
